---- MODULE Spec2Model ----
(***************************************************************************)
(* Model of the GemPP memory tools over a live emulator.                   *)
(*                                                                         *)
(*  - stunNpc (packages/tools, utility/stun_npc): the polling              *)
(*    read-modify-write that toggles the frozen bit of an ObjectEvent.     *)
(*  - getActiveTasks (packages/core, tasks): the scan of the 16 gTasks     *)
(*    slots.                                                               *)
(*                                                                         *)
(* The emulator runs concurrently with the tool: every await of a memory   *)
(* access is a point at which the simulation may change memory.  A 32-bit  *)
(* word is modelled by the set of its set bit positions (a subset of       *)
(* 0..31), so that the bitwise operators of the code are computed bit by   *)
(* bit.                                                                    *)
(***************************************************************************)
EXTENDS Integers, Sequences, FiniteSets, TLC

(***************************************************************************)
(* Bounds of the model (not program constants).                            *)
(***************************************************************************)
\* A slow transport round trip or a late timer adds this many milliseconds.
SlowMs == 1000
\* The simulation rewrites at most this many task slots during one scan.
MaxTaskWrites == 1

(***************************************************************************)
(* Constants of stun_npc.ts                                                *)
(***************************************************************************)
OBJECT_EVENT_SIZE == 36
OBJECT_EVENTS_ADDR == 4096
OBJECT_EVENT_FLAGS_OFFSET == 0
FROZEN_BIT == 8
SINGLE_MOVEMENT_ACTIVE_BIT == 1
HELD_MOVEMENT_ACTIVE_BIT == 6
SAFETY_WAIT_MS == 32
SAFETY_TIMEOUT_MS == 2000

(***************************************************************************)
(* 32-bit words as sets of bit positions, and the bitwise operators the    *)
(* code applies to them.                                                   *)
(***************************************************************************)
BitPositions == 0..31

\* 1 << n
ShiftLeftOne(n) == {n}

\* a ^ b
BitXor(a, b) == (a \ b) \cup (b \ a)

\* (w >> n) & 1
BitAt(w, n) == IF n \in w THEN 1 ELSE 0

(***************************************************************************)
(* The emulator's object events.  Entity 0 is the player; the simulation   *)
(* walks the Wanderers and leaves the other NPC (a stationary object)      *)
(* alone.                                                                  *)
(***************************************************************************)
Wanderers == {1}
Entities == {0, 1, 15}
\* ids a caller may pass, valid or not
CallIds == {-1, 0, 1, 15, 16}

\* npcBaseAddr + OBJECT_EVENT_FLAGS_OFFSET
FlagsAddr(i) == OBJECT_EVENTS_ADDR + (i * OBJECT_EVENT_SIZE) + OBJECT_EVENT_FLAGS_OFFSET

ObjectAddrs == {FlagsAddr(e) : e \in Entities}

\* flags words an object event can hold when the call starts: idle, already
\* frozen, and a word whose top bit is set
InitFlags == {{}, {FROZEN_BIT}, {31}}

MovementBits == {SINGLE_MOVEMENT_ACTIVE_BIT, HELD_MOVEMENT_ACTIVE_BIT}

\* what an observer of the emulator calls an idle entity: neither bit 1
\* (single step active) nor bit 6 (held step active) is set
IdleWord(w) == 1 \notin w /\ 6 \notin w

VARIABLES
    \* ---- emulator ----
    mem,            \* flags word of each object event, by address
    now,            \* the clock read by Date.now(), in ms
    \* ---- stunNpc ----
    id,             \* the argument
    pc,             \* position of the call
    startTime,
    isSafe,
    currentFlags,
    newFlags,
    result,         \* "none" | "true" | "InvalidId" | "BusyTimeout" | "TransportError"
    \* ---- observations of the call ----
    nReads,         \* reads issued
    nWrites,        \* writes issued
    nWaits,         \* completed wait cycles
    nPolls,         \* poll reads issued inside the loop
    nBusy,          \* polls that returned a word with a movement bit set
    lastPoll,       \* "none" | "busy" | "safe" | "failed"
    readsSinceSafe, \* reads issued after the last safe poll
    readAddrs,      \* addresses read
    writeAddr,      \* address written (0: none)
    written,        \* value handed to writeUint32
    preWrite,       \* live word at the instant the write landed
    postWrite,      \* live word right after the write landed
    \* ---- emulator: the task array ----
    gTasks,         \* byte/word stored at each task field address
    simWrites,      \* slots the simulation has rewritten so far
    \* ---- getActiveTasks ----
    tpc,            \* position of the scan
    taskIdx,        \* the loop variable i
    isActive,
    funcAddress,
    prev,
    tasks,          \* the array being built
    tResult,        \* "none" | "ok" | "TransportError"
    \* ---- observations of the scan ----
    activeSeen,     \* per slot, the active flag as it was read (-1: not read)
    fieldReads,     \* <<slot, field>> of every read issued for a field other
                    \* than the active flag
    \* ---- emulator: battle state ----
    battleByte,     \* the byte at IN_BATTLE_BIT_ADDR
    \* ---- callers of getActiveTasks ----
    call,           \* the function called: "getActiveTasks" | "getHeadTask" |
                    \* "isPartyMenuOpen" | "isStartMenuOpen" | "isBagMenuOpen" |
                    \* "isAnyMenuOpen"
    phase,          \* the predicate being evaluated: "party" | "start" | "bag" | "none"
    callResult,     \* "pending" | "raised" | "true" | "false" | "null" | "task"
    headTask,       \* the entry getHeadTask returned (a sequence of at most one)
    \* ---- decoders (pure functions applied to drawn inputs) ----
    dOp,            \* the decoder applied
    dIn,            \* its input
    dOut,           \* its output, a sequence (empty before it is applied)
    dBack,          \* the decoder applied again to its own output (a sequence)
    \* ---- emulator: the bag ----
    secKeyMem,      \* the security key in memory (a 32-bit word)
    bagPattern,     \* which pocket images memory holds
    keyChanges,     \* number of key changes the simulation has made
    \* ---- getPocket, getBagContents, getTotalPokeBalls, getPokeBallCounts ----
    bCall,          \* "none" | "getPocket" | "getBagContents" | "pokeBalls"
    bArg,           \* pocketName of a getPocket call
    kpc,            \* getSecurityKey: "none" | "ptr" | "key" | "done"
    keyHeld,        \* the key the call holds (a sequence of at most one word)
    ppc,            \* per pocket, getPocket: "idle" | "ptr" | "range" | "done" | "raised"
    pItems,         \* per pocket, the items returned
    bResult,        \* "pending" | "ok" | "TransportError" | "RangeError"
    ballStage,      \* "none" | "total" | "counts" | "done"
    ballTotal,      \* result of getTotalPokeBalls
    ballCounts,     \* result of getPokeBallCounts (name -> quantity)
    \* ---- observations on the bag calls ----
    nKeyReads,      \* reads of the security key
    nPocketReads,   \* reads issued by getPocket for pocket data
    pocketReadsAtKey, \* nPocketReads at the first key read (-1: no key read)
    shortOk,        \* a getPocket returned items from a response that was
                    \* shorter than the length asked for
    keySeen,        \* the key values read, in order
    \* ---- emulator: the party ----
    partyCountMem,  \* the byte at PLAYER_PARTY_COUNT_ADDR
    partyChanges,   \* number of changes the simulation has made to it
    \* ---- getPokemon ----
    gpSlot,         \* the argument
    gpc,            \* position of the call: "none" | "entry" | "count" | "range" | "done"
    gpResult,       \* "pending" | "InvalidSlot" | "null" | "pokemon" |
                    \* "TransportError" | "RangeError"
    gpReadAddrs,    \* addresses of the reads issued, in order
    \* ---- emulator: the player avatar ----
    avatarFlags,    \* the byte at PLAYER_AVATAR_FLAGS_ADDR
    flagChanges,    \* number of changes the simulation has made to it
    \* ---- holdButtons ----
    hbButton,       \* the arguments
    hbDuration,
    hpc,            \* position of the call: "none" | "flags" | "post" | "done"
    hbResult,       \* "pending" | "true" | "false" | "SafetyConstraint" |
                    \* "TransportError"
    flagsRead,      \* the avatar flags the call read (a sequence of at most one)
    posted,         \* the hold requests sent, in order
    \* ---- emulator: save states ----
    emuState,       \* the state the emulator is in
    backupFile,     \* content of the temp file (a sequence of at most one)
    \* ---- withSaveState ----
    statePath,      \* the argument
    wpc,            \* "none" | "backup" | "load" | "test" | "restore" | "done"
    backupPath,     \* SaveStateManager.backupPath (<<>>: null)
    wErr,           \* the error thrown inside the try block ("none": none)
    wResult,        \* "pending" | "ok" | "BackupError" | "LoadError" |
                    \* "TestError" | "RestoreError"
    nRestores,      \* calls of manager.restore()
    \* ---- observation of the task array during isAnyMenuOpen ----
    menuAlways      \* at every instant since the call began, some active slot
                    \* held a task that meets a menu criterion

stunVars == <<id, pc, startTime, isSafe, currentFlags, newFlags, result>>
obsVars == <<nReads, nWrites, nWaits, nPolls, nBusy, lastPoll, readsSinceSafe,
             readAddrs, writeAddr, written, preWrite, postWrite>>
emuTaskVars == <<gTasks, simWrites>>
scanVars == <<tpc, taskIdx, isActive, funcAddress, prev, tasks, tResult, activeSeen,
              fieldReads>>
taskVars == <<emuTaskVars, scanVars>>
menuVars == <<battleByte, call, phase, callResult, headTask>>
decVars == <<dOp, dIn, dOut, dBack>>
emuBagVars == <<secKeyMem, bagPattern, keyChanges>>
bagCallVars == <<bCall, bArg, kpc, keyHeld, ppc, pItems, bResult, ballStage,
                 ballTotal, ballCounts>>
bagObsVars == <<nKeyReads, nPocketReads, pocketReadsAtKey, shortOk, keySeen>>
bagVars == <<emuBagVars, bagCallVars, bagObsVars>>
pokVars == <<partyCountMem, partyChanges, gpSlot, gpc, gpResult, gpReadAddrs>>
holdVars == <<avatarFlags, flagChanges, hbButton, hbDuration, hpc, hbResult,
              flagsRead, posted>>
saveVars == <<emuState, backupFile, statePath, wpc, backupPath, wErr, wResult,
              nRestores>>
raceVars == <<menuAlways>>
lateVars == <<pokVars, holdVars, saveVars, raceVars>>
restVars == <<bagVars, lateVars>>
vars == <<mem, now, stunVars, obsVars, taskVars, menuVars, decVars, restVars>>

(***************************************************************************)
(* The task array (addresses/emerald.ts) and its contents                  *)
(***************************************************************************)
GTASKS_ADDR == 50355712
TASK_SIZE == 40
TASK_COUNT == 16
TASK_OFFSET_FUNC == 0
TASK_OFFSET_IS_ACTIVE == 4
TASK_OFFSET_PREV == 5
TASK_OFFSET_PRIORITY == 7
HEAD_SENTINEL == 254

TaskSlots == 0..(TASK_COUNT - 1)

\* const taskAddr = GTASKS_ADDR + (i * TASK_SIZE)
TaskAddr(n) == GTASKS_ADDR + (n * TASK_SIZE)

TaskFieldOffsets ==
    {TASK_OFFSET_FUNC, TASK_OFFSET_IS_ACTIVE, TASK_OFFSET_PREV, TASK_OFFSET_PRIORITY}

TaskFieldAddrs == {TaskAddr(n) + off : n \in TaskSlots, off \in TaskFieldOffsets}

\* TASK_FUNCTIONS: the generated address -> name table (the two entries the
\* test plan and the fixtures document)
TASK_FUNCTIONS ==
    (135992176 :> "Task_HandleChooseMonInput") @@ (134871604 :> "Task_ShowStartMenu")

\* TASK_FUNCTIONS.get(address) ?? null
getTaskFunctionName(address) ==
    IF address \in DOMAIN TASK_FUNCTIONS THEN TASK_FUNCTIONS[address] ELSE "null"

\* task records the emulator may hold in a slot: a free slot, the head task
\* running the party menu handler (Thumb bit set in the pointer), and a task
\* behind the head running the start menu, whose active byte is a nonzero
\* value other than 1
TaskRecords ==
    { [isActive |-> 0,   func |-> 0,         prev |-> 0,             priority |-> 0],
      [isActive |-> 1,   func |-> 135992177, prev |-> HEAD_SENTINEL, priority |-> 0],
      [isActive |-> 255, func |-> 134871604, prev |-> 0,             priority |-> 80] }

\* the memory image of slot n holding record r
SlotImage(n, r) ==
    (TaskAddr(n) + TASK_OFFSET_FUNC :> r.func)
    @@ (TaskAddr(n) + TASK_OFFSET_IS_ACTIVE :> r.isActive)
    @@ (TaskAddr(n) + TASK_OFFSET_PREV :> r.prev)
    @@ (TaskAddr(n) + TASK_OFFSET_PRIORITY :> r.priority)

\* memory in which every slot holds record r
UniformTasks(r) ==
    [a \in TaskFieldAddrs |->
        SlotImage((a - GTASKS_ADDR) \div TASK_SIZE, r)[a]]

\* the scan before it is called
ScanIdle ==
    /\ tpc = "entry"
    /\ taskIdx = 0
    /\ isActive = 0
    /\ funcAddress = 0
    /\ prev = 0
    /\ tasks = <<>>
    /\ tResult = "none"
    /\ activeSeen = [n \in TaskSlots |-> -1]
    /\ fieldReads = {}

\* no caller on top of the scan: getActiveTasks itself is called
MenuIdle ==
    /\ battleByte = 0
    /\ call = "getActiveTasks"
    /\ phase = "none"
    /\ callResult = "pending"
    /\ headTask = <<>>

\* no decoder applied
DecIdle ==
    /\ dOp = "none"
    /\ dIn = <<>>
    /\ dOut = <<>>
    /\ dBack = <<>>

PocketNames == {"Items", "KeyItems", "PokeBalls", "TMsHMs", "Berries"}

\* no bag call
BagIdle ==
    /\ secKeyMem = {}
    /\ bagPattern = "empty"
    /\ keyChanges = 0
    /\ bCall = "none"
    /\ bArg = "none"
    /\ kpc = "none"
    /\ keyHeld = <<>>
    /\ ppc = [p \in PocketNames |-> "idle"]
    /\ pItems = [p \in PocketNames |-> <<>>]
    /\ bResult = "pending"
    /\ ballStage = "none"
    /\ ballTotal = 0
    /\ ballCounts = <<>>
    /\ nKeyReads = 0
    /\ nPocketReads = 0
    /\ pocketReadsAtKey = -1
    /\ shortOk = FALSE
    /\ keySeen = <<>>

\* no getPokemon call
PokIdle ==
    /\ partyCountMem = 0
    /\ partyChanges = 0
    /\ gpSlot = 0
    /\ gpc = "none"
    /\ gpResult = "pending"
    /\ gpReadAddrs = <<>>

\* no holdButtons call
HoldIdle ==
    /\ avatarFlags = 0
    /\ flagChanges = 0
    /\ hbButton = "none"
    /\ hbDuration = 0
    /\ hpc = "none"
    /\ hbResult = "pending"
    /\ flagsRead = <<>>
    /\ posted = <<>>

\* no withSaveState call
SaveIdle ==
    /\ emuState = "none"
    /\ backupFile = <<>>
    /\ statePath = "none"
    /\ wpc = "none"
    /\ backupPath = <<>>
    /\ wErr = "none"
    /\ wResult = "pending"
    /\ nRestores = 0

\* the task array is not observed
RaceIdle == menuAlways = FALSE

LateIdle == PokIdle /\ HoldIdle /\ SaveIdle /\ RaceIdle

\* none of the later operations is called
RestIdle == BagIdle /\ LateIdle

\* stunNpc before it is called
StunIdle ==
    /\ pc = "entry"
    /\ startTime = 0
    /\ isSafe = FALSE
    /\ currentFlags = {}
    /\ newFlags = {}
    /\ result = "none"
    /\ nReads = 0
    /\ nWrites = 0
    /\ nWaits = 0
    /\ nPolls = 0
    /\ nBusy = 0
    /\ lastPoll = "none"
    /\ readsSinceSafe = 0
    /\ readAddrs = {}
    /\ writeAddr = 0
    /\ written = {}
    /\ preWrite = {}
    /\ postWrite = {}

(***************************************************************************)
(* stunNpc                                                                 *)
(***************************************************************************)
\* the lower limit off by one: the player (entity 0) is accepted
InvalidNpcId_AcceptsPlayer(i) == i < 0 \/ i > 15

\* if (id < 1 || id > 15) throw
InvalidNpcId(i) == i < 1 \/ i > 15

\* the deadline one wait too late
LoopContinues_Late(t, start) == t - start < SAFETY_TIMEOUT_MS + SAFETY_WAIT_MS

\* while (Date.now() - startTime < SAFETY_TIMEOUT_MS)
LoopContinues(t, start) == t - start < SAFETY_TIMEOUT_MS

\* only the single-step bit is tested
SafeWindow_SingleOnly(flags) == BitAt(flags, SINGLE_MOVEMENT_ACTIVE_BIT) = 0

\* only the held-step bit is tested
SafeWindow_HeldOnly(flags) == BitAt(flags, HELD_MOVEMENT_ACTIVE_BIT) = 0

\* !singleMovementActive && !heldMovementActive
SafeWindow(flags) ==
    /\ BitAt(flags, SINGLE_MOVEMENT_ACTIVE_BIT) = 0
    /\ BitAt(flags, HELD_MOVEMENT_ACTIVE_BIT) = 0

\* the frozen bit is set with | instead of toggled with ^
ToggleFrozen_Or(flags) == flags \cup ShiftLeftOne(FROZEN_BIT)

\* currentFlags ^ (1 << FROZEN_BIT)
ToggleFrozen(flags) == BitXor(flags, ShiftLeftOne(FROZEN_BIT))

\* the check after the loop is missing
ThrowsBusy_Never(safe) == FALSE

\* if (!isSafe) throw
ThrowsBusy(safe) == ~safe

\* readUint32: the word at an address; fails when the response is not ok
ReadUint32(a) == mem[a]

\* writeUint32: stores the 32 bits of the value at the address
WriteUint32(a, v) == [mem EXCEPT ![a] = v]

InitStun ==
    /\ mem \in [ObjectAddrs -> InitFlags]
    /\ mem[FlagsAddr(0)] = {}
    /\ now = 0
    /\ id \in CallIds
    /\ StunIdle
    /\ gTasks = UniformTasks(CHOOSE r \in TaskRecords : r.isActive = 0)
    /\ simWrites = 0
    /\ ScanIdle
    /\ MenuIdle
    /\ DecIdle
    /\ RestIdle

\* entry: range check, then startTime = Date.now(), isSafe = false
StunEntry ==
    /\ UNCHANGED <<taskVars, menuVars, decVars, restVars>>
    /\ pc = "entry"
    /\ IF InvalidNpcId(id)
         THEN /\ pc' = "done"
              /\ result' = "InvalidId"
              /\ UNCHANGED startTime
         ELSE /\ pc' = "loop"
              /\ startTime' = now
              /\ UNCHANGED result
    /\ isSafe' = FALSE
    /\ UNCHANGED <<mem, now, id, currentFlags, newFlags, obsVars>>

\* the loop condition; on exit, if (!isSafe) throw
StunLoopTest ==
    /\ UNCHANGED <<taskVars, menuVars, decVars, restVars>>
    /\ pc = "loop"
    /\ IF LoopContinues(now, startTime)
         THEN /\ pc' = "poll"
              /\ UNCHANGED result
         ELSE IF ThrowsBusy(isSafe)
                THEN /\ pc' = "done"
                     /\ result' = "BusyTimeout"
                ELSE /\ pc' = "reread"
                     /\ UNCHANGED result
    /\ UNCHANGED <<mem, now, id, startTime, isSafe, currentFlags, newFlags, obsVars>>

\* const flags = await readUint32(flagsAddr); test of the two movement bits
StunPoll ==
    /\ UNCHANGED <<taskVars, menuVars, decVars, restVars>>
    /\ pc = "poll"
    /\ \E d \in {0, SlowMs} :
         /\ now' = now + d
         /\ nReads' = nReads + 1
         /\ nPolls' = nPolls + 1
         /\ readAddrs' = readAddrs \cup {FlagsAddr(id)}
         /\ \/ \* the read fails: the error propagates
               /\ pc' = "done"
               /\ result' = "TransportError"
               /\ lastPoll' = "failed"
               /\ UNCHANGED <<isSafe, nBusy, readsSinceSafe>>
            \/ \* the read returns the live word
               LET flags == ReadUint32(FlagsAddr(id)) IN
               /\ lastPoll' = IF IdleWord(flags) THEN "safe" ELSE "busy"
               /\ nBusy' = IF IdleWord(flags) THEN nBusy ELSE nBusy + 1
               /\ readsSinceSafe' = IF IdleWord(flags) THEN 0 ELSE readsSinceSafe + 1
               /\ IF SafeWindow(flags)
                    THEN /\ isSafe' = TRUE
                         /\ pc' = "reread"
                    ELSE /\ pc' = "wait"
                         /\ UNCHANGED isSafe
               /\ UNCHANGED result
    /\ UNCHANGED <<mem, id, startTime, currentFlags, newFlags,
                   nWrites, nWaits, writeAddr, written, preWrite, postWrite>>

\* await new Promise(resolve => setTimeout(resolve, SAFETY_WAIT_MS))
StunWait ==
    /\ UNCHANGED <<taskVars, menuVars, decVars, restVars>>
    /\ pc = "wait"
    /\ \E late \in {0, SlowMs} : now' = now + SAFETY_WAIT_MS + late
    /\ nWaits' = nWaits + 1
    /\ pc' = "loop"
    /\ UNCHANGED <<mem, id, startTime, isSafe, currentFlags, newFlags, result,
                   nReads, nWrites, nPolls, nBusy, lastPoll, readsSinceSafe,
                   readAddrs, writeAddr, written, preWrite, postWrite>>

\* const currentFlags = await readUint32(flagsAddr); newFlags = currentFlags ^ (1 << 8)
StunReRead ==
    /\ UNCHANGED <<taskVars, menuVars, decVars, restVars>>
    /\ pc = "reread"
    /\ nReads' = nReads + 1
    /\ readsSinceSafe' = readsSinceSafe + 1
    /\ readAddrs' = readAddrs \cup {FlagsAddr(id)}
    /\ \/ /\ pc' = "done"
          /\ result' = "TransportError"
          /\ UNCHANGED <<currentFlags, newFlags>>
       \/ /\ currentFlags' = ReadUint32(FlagsAddr(id))
          /\ newFlags' = ToggleFrozen(currentFlags')
          /\ pc' = "write"
          /\ UNCHANGED result
    /\ UNCHANGED <<mem, now, id, startTime, isSafe,
                   nWrites, nWaits, nPolls, nBusy, lastPoll,
                   writeAddr, written, preWrite, postWrite>>

\* await writeUint32(flagsAddr, newFlags); return true
StunWrite ==
    /\ UNCHANGED <<taskVars, menuVars, decVars, restVars>>
    /\ pc = "write"
    /\ nWrites' = nWrites + 1
    /\ writeAddr' = FlagsAddr(id)
    /\ written' = newFlags
    /\ pc' = "done"
    /\ \/ \* the write fails: nothing is stored, the error propagates
          /\ result' = "TransportError"
          /\ UNCHANGED <<mem, preWrite, postWrite>>
       \/ /\ mem' = WriteUint32(FlagsAddr(id), newFlags)
          /\ preWrite' = mem[FlagsAddr(id)]
          /\ postWrite' = mem'[FlagsAddr(id)]
          /\ result' = "true"
    /\ UNCHANGED <<now, id, startTime, isSafe, currentFlags, newFlags,
                   nReads, nWaits, nPolls, nBusy, lastPoll, readsSinceSafe, readAddrs>>

\* the simulation starts or finishes a step of the wandering NPC
SimStep ==
    /\ UNCHANGED <<taskVars, menuVars, decVars, restVars>>
    /\ \E w \in Wanderers, b \in MovementBits :
         mem' = [mem EXCEPT ![FlagsAddr(w)] = BitXor(@, {b})]
    /\ UNCHANGED <<now, stunVars, obsVars>>

StunStep == StunEntry \/ StunLoopTest \/ StunPoll \/ StunWait \/ StunReRead \/ StunWrite

NextStun == StunStep \/ SimStep

SpecStun == InitStun /\ [][NextStun]_vars

\* every step of the call is eventually taken: the transport answers every request
FairStun == SpecStun /\ WF_vars(StunStep)

(***************************************************************************)
(* getActiveTasks (tasks reader)                                           *)
(***************************************************************************)
\* the test of the active flag is missing: no slot is skipped
SkipsSlot_Never(flag) == FALSE

\* if (!isActive) continue
SkipsSlot(flag) == flag = 0

\* i < TASK_COUNT
MoreSlots(n) == n < TASK_COUNT

\* readUint8 / readUint32 of a task field
ReadTaskField(a) == gTasks[a]

\* the entry pushed for slot n
ActiveTask(n, func, priorityRead, prevRead) ==
    [id |-> n,
     funcAddress |-> func,
     funcName |-> getTaskFunctionName(func),
     priority |-> priorityRead,
     isHead |-> (prevRead = HEAD_SENTINEL)]

\* i++ and the loop test; return tasks when the loop ends.  The constants of
\* the loop body (isActive, funcAddress, prev) go out of scope.
NextSlot(n) ==
    /\ taskIdx' = n
    /\ isActive' = 0
    /\ funcAddress' = 0
    /\ prev' = 0
    /\ IF MoreSlots(n)
         THEN /\ tpc' = "isActive"
              /\ UNCHANGED tResult
         ELSE /\ tpc' = "done"
              /\ tResult' = "ok"

InitTasks ==
    /\ mem = [a \in ObjectAddrs |-> {}]
    /\ now = 0
    /\ id = 1
    /\ StunIdle
    /\ \E r \in TaskRecords : gTasks = UniformTasks(r)
    /\ simWrites = 0
    /\ ScanIdle
    /\ MenuIdle
    /\ DecIdle
    /\ RestIdle

\* const tasks = []; i = 0
ScanEntry ==
    /\ tpc = "entry"
    /\ tasks' = <<>>
    /\ NextSlot(0)
    /\ UNCHANGED <<restVars, menuVars, decVars, mem, now, stunVars, obsVars, emuTaskVars, activeSeen,
                   fieldReads>>

\* a read fails: the error propagates out of getActiveTasks and the array
\* built so far is dropped
ScanReadFails ==
    /\ tpc \in {"isActive", "func", "prev", "priority"}
    /\ tpc' = "done"
    /\ tResult' = "TransportError"
    /\ tasks' = <<>>
    /\ isActive' = 0
    /\ funcAddress' = 0
    /\ prev' = 0
    /\ fieldReads' = IF tpc = "isActive" THEN fieldReads
                     ELSE fieldReads \cup {<<taskIdx, tpc>>}
    /\ UNCHANGED <<restVars, menuVars, decVars, mem, now, stunVars, obsVars, emuTaskVars, taskIdx, activeSeen>>

\* const isActive = await readUint8(taskAddr + IS_ACTIVE); if (!isActive) continue
ScanReadActive ==
    /\ tpc = "isActive"
    /\ LET flag == ReadTaskField(TaskAddr(taskIdx) + TASK_OFFSET_IS_ACTIVE) IN
         /\ activeSeen' = [activeSeen EXCEPT ![taskIdx] = flag]
         /\ IF SkipsSlot(flag)
              THEN NextSlot(taskIdx + 1)
              ELSE /\ isActive' = flag
                   /\ tpc' = "func"
                   /\ UNCHANGED <<taskIdx, tResult, funcAddress, prev>>
    /\ UNCHANGED <<restVars, menuVars, decVars, mem, now, stunVars, obsVars, emuTaskVars, tasks,
                   fieldReads>>

\* const funcAddress = await readUint32(taskAddr + FUNC)
ScanReadFunc ==
    /\ tpc = "func"
    /\ funcAddress' = ReadTaskField(TaskAddr(taskIdx) + TASK_OFFSET_FUNC)
    /\ tpc' = "prev"
    /\ fieldReads' = fieldReads \cup {<<taskIdx, "func">>}
    /\ UNCHANGED <<restVars, menuVars, decVars, mem, now, stunVars, obsVars, emuTaskVars,
                   taskIdx, isActive, prev, tasks, tResult, activeSeen>>

\* const prev = await readUint8(taskAddr + PREV)
ScanReadPrev ==
    /\ tpc = "prev"
    /\ prev' = ReadTaskField(TaskAddr(taskIdx) + TASK_OFFSET_PREV)
    /\ tpc' = "priority"
    /\ fieldReads' = fieldReads \cup {<<taskIdx, "prev">>}
    /\ UNCHANGED <<restVars, menuVars, decVars, mem, now, stunVars, obsVars, emuTaskVars,
                   taskIdx, isActive, funcAddress, tasks, tResult, activeSeen>>

\* const priority = await readUint8(taskAddr + PRIORITY); tasks.push({...})
ScanReadPriority ==
    /\ tpc = "priority"
    /\ LET priority == ReadTaskField(TaskAddr(taskIdx) + TASK_OFFSET_PRIORITY) IN
         tasks' = Append(tasks, ActiveTask(taskIdx, funcAddress, priority, prev))
    /\ fieldReads' = fieldReads \cup {<<taskIdx, "priority">>}
    /\ NextSlot(taskIdx + 1)
    /\ UNCHANGED <<restVars, menuVars, decVars, mem, now, stunVars, obsVars, emuTaskVars, activeSeen>>

\* the simulation creates, destroys or replaces the task of one slot
SimTaskWrite ==
    /\ simWrites < MaxTaskWrites
    /\ simWrites' = simWrites + 1
    /\ \E n \in TaskSlots, r \in TaskRecords :
         gTasks' = SlotImage(n, r) @@ gTasks
    /\ UNCHANGED <<restVars, menuVars, decVars, mem, now, stunVars, obsVars, scanVars>>

ScanStep ==
    \/ ScanEntry
    \/ ScanReadFails
    \/ ScanReadActive
    \/ ScanReadFunc
    \/ ScanReadPrev
    \/ ScanReadPriority

NextTasks == ScanStep \/ SimTaskWrite

SpecTasks == InitTasks /\ [][NextTasks]_vars

(***************************************************************************)
(* getHeadTask and the menu predicates (callers of getActiveTasks)         *)
(***************************************************************************)
PARTY_MENU_TASKS ==
    {"Task_HandleChooseMonInput", "Task_HandleSelectionMenuInput",
     "Task_TryCreateSelectionWindow"}
START_MENU_TASKS == {"Task_ShowStartMenu"}
BAG_MENU_TASKS ==
    {"Task_FadeAndCloseBagMenu", "Task_ScrollIndicatorArrowPairOnMainMenu"}

\* [start, end] of party_menu.o, item_menu.o and list_menu.o
PARTY_MENU_RANGE == <<135987256, 136026548>>
ITEM_MENU_RANGE == <<135959780, 135979576>>
LIST_MENU_RANGE == <<135980120, 135986160>>

IN_BATTLE_BITMASK == 2

\* address & ~1, for the addresses below 2^31 the model draws
ClearThumbBit(address) == address - (address % 2)

isAddressInRange_Closed(address, range) ==
    LET masked == ClearThumbBit(address) IN
      masked >= range[1] /\ masked <= range[2]

\* masked >= range[0] && masked < range[1]
isAddressInRange(address, range) ==
    LET masked == ClearThumbBit(address) IN
      masked >= range[1] /\ masked < range[2]

getHeadTask_First(ts) ==
    IF ts = <<>> THEN <<>> ELSE <<ts[1]>>

\* tasks.find(t => t.isHead) ?? null: the first entry with isHead, as a
\* sequence of one, or the empty sequence for null
getHeadTask(ts) ==
    LET heads == {k \in 1..Len(ts) : ts[k].isHead} IN
      IF heads = {}
        THEN <<>>
        ELSE <<ts[CHOOSE k \in heads : \A j \in heads : k <= j]>>

\* tasks.some(...) of isPartyMenuOpen
isPartyMenuOpen(ts) ==
    \E k \in 1..Len(ts) :
        \/ ts[k].funcName # "null" /\ ts[k].funcName \in PARTY_MENU_TASKS
        \/ isAddressInRange(ts[k].funcAddress, PARTY_MENU_RANGE)

\* tasks.some(...) of isStartMenuOpen
isStartMenuOpen(ts) ==
    \E k \in 1..Len(ts) :
        ts[k].funcName # "null" /\ ts[k].funcName \in START_MENU_TASKS

\* tasks.some(...) of isBagMenuOpen
isBagMenuOpen(ts) ==
    \E k \in 1..Len(ts) :
        \/ ts[k].funcName # "null" /\ ts[k].funcName \in BAG_MENU_TASKS
        \/ isAddressInRange(ts[k].funcAddress, ITEM_MENU_RANGE)
        \/ isAddressInRange(ts[k].funcAddress, LIST_MENU_RANGE)

\* (value & IN_BATTLE_BITMASK) !== 0
isInBattle(value) == (value \div IN_BATTLE_BITMASK) % 2 # 0

\* the predicate a phase evaluates on the array its scan returned
MenuPredicate(p, ts) ==
    CASE p = "party" -> isPartyMenuOpen(ts)
      [] p = "start" -> isStartMenuOpen(ts)
      [] p = "bag" -> isBagMenuOpen(ts)

\* isAnyMenuOpen: party || start || bag, each awaited in turn
NextPhase(p) == IF p = "party" THEN "start" ELSE "bag"

BoolName(b) == IF b THEN "true" ELSE "false"

FirstPhase(c) ==
    CASE c = "isPartyMenuOpen" -> "party"
      [] c = "isStartMenuOpen" -> "start"
      [] c = "isBagMenuOpen" -> "bag"
      [] c = "isAnyMenuOpen" -> "party"
      [] OTHER -> "none"

MenuCalls ==
    {"getHeadTask", "isPartyMenuOpen", "isStartMenuOpen", "isBagMenuOpen",
     "isAnyMenuOpen"}

\* the two slots of gTasks the menu scenarios populate; the others are free
MenuSlots == <<3, 12>>

\* task records of the menu scenarios: heads and non-heads, pointers with
\* and without the Thumb bit, at and around the ends of the three ranges
MenuRecords ==
    { [isActive |-> 0, func |-> 0,         prev |-> 0,             priority |-> 0],
      [isActive |-> 1, func |-> 135992177, prev |-> HEAD_SENTINEL, priority |-> 0],
      [isActive |-> 1, func |-> 134871604, prev |-> HEAD_SENTINEL, priority |-> 80],
      [isActive |-> 1, func |-> 135987256, prev |-> 3,             priority |-> 1],
      [isActive |-> 1, func |-> 135987255, prev |-> 3,             priority |-> 1],
      [isActive |-> 1, func |-> 136026547, prev |-> 3,             priority |-> 1],
      [isActive |-> 1, func |-> 136026548, prev |-> 3,             priority |-> 1],
      [isActive |-> 1, func |-> 135959780, prev |-> 3,             priority |-> 1],
      [isActive |-> 1, func |-> 135980121, prev |-> 3,             priority |-> 1],
      [isActive |-> 1, func |-> 135986160, prev |-> 3,             priority |-> 1],
      [isActive |-> 1, func |-> 305419896, prev |-> 3,             priority |-> 1] }

BattleBytes == {0, IN_BATTLE_BITMASK}

MenuTasks(r1, r2) ==
    SlotImage(MenuSlots[1], r1) @@ SlotImage(MenuSlots[2], r2)
        @@ UniformTasks(CHOOSE r \in TaskRecords : r.isActive = 0)

InitMenu ==
    /\ mem = [a \in ObjectAddrs |-> {}]
    /\ now = 0
    /\ id = 1
    /\ StunIdle
    /\ \E r1 \in MenuRecords, r2 \in MenuRecords : gTasks = MenuTasks(r1, r2)
    /\ simWrites = 0
    /\ ScanIdle
    /\ battleByte \in BattleBytes
    /\ call \in MenuCalls
    /\ phase = FirstPhase(call)
    /\ callResult = "pending"
    /\ headTask = <<>>
    /\ DecIdle
    /\ RestIdle

\* getHeadTask after its await: the error of the scan propagates, else
\* return tasks.find(t => t.isHead) ?? null
HeadReturn ==
    /\ call = "getHeadTask"
    /\ callResult = "pending"
    /\ tpc = "done"
    /\ IF tResult = "TransportError"
         THEN /\ callResult' = "raised"
              /\ headTask' = <<>>
         ELSE /\ headTask' = getHeadTask(tasks)
              /\ callResult' = IF headTask' = <<>> THEN "null" ELSE "task"
    /\ UNCHANGED <<battleByte, call, phase>>
    /\ UNCHANGED <<restVars, decVars, mem, now, stunVars, obsVars, taskVars>>

\* isPartyMenuOpen, isStartMenuOpen, isBagMenuOpen after their await: the
\* error of the scan propagates, else return tasks.some(...)
PredicateReturn ==
    /\ call \in {"isPartyMenuOpen", "isStartMenuOpen", "isBagMenuOpen"}
    /\ callResult = "pending"
    /\ tpc = "done"
    /\ callResult' = IF tResult = "TransportError"
                       THEN "raised"
                       ELSE BoolName(MenuPredicate(phase, tasks))
    /\ UNCHANGED <<battleByte, call, phase, headTask>>
    /\ UNCHANGED <<restVars, decVars, mem, now, stunVars, obsVars, taskVars>>

\* isAnyMenuOpen after one of its awaits: the error propagates; a true
\* operand of || ends the evaluation; a false one calls the next predicate,
\* which scans again; the last operand is the result
AnyMenuStep ==
    /\ call = "isAnyMenuOpen"
    /\ callResult = "pending"
    /\ tpc = "done"
    /\ IF tResult = "TransportError"
         THEN /\ callResult' = "raised"
              /\ UNCHANGED <<phase, scanVars>>
         ELSE IF MenuPredicate(phase, tasks)
         THEN /\ callResult' = "true"
              /\ UNCHANGED <<phase, scanVars>>
         ELSE IF phase = "bag"
         THEN /\ callResult' = "false"
              /\ UNCHANGED <<phase, scanVars>>
         ELSE /\ phase' = NextPhase(phase)
              /\ UNCHANGED callResult
              /\ tpc' = "entry"
              /\ taskIdx' = 0
              /\ isActive' = 0
              /\ funcAddress' = 0
              /\ prev' = 0
              /\ tasks' = <<>>
              /\ tResult' = "none"
              /\ activeSeen' = [n \in TaskSlots |-> -1]
              /\ fieldReads' = {}
    /\ UNCHANGED <<battleByte, call, headTask>>
    /\ UNCHANGED <<restVars, decVars, mem, now, stunVars, obsVars, emuTaskVars>>

CallerStep ==
    \/ HeadReturn
    \/ PredicateReturn
    \/ AnyMenuStep

NextMenu == ScanStep \/ CallerStep

SpecMenu == InitMenu /\ [][NextMenu]_vars

(***************************************************************************)
(* Decoders: decryptDataBlock, getSubstructureOffset, decryptQuantity and  *)
(* the decryption of getPlayerMoney.  32-bit values are sets of bit        *)
(* positions; bytes and 16-bit values are numbers.                         *)
(***************************************************************************)
ENCRYPTED_SIZE == 48
SUBSTRUCTURE_SIZE == 12

SUBSTRUCTURE_ORDER ==
    << <<"G","A","E","M">>, <<"G","A","M","E">>, <<"G","E","A","M">>,
       <<"G","E","M","A">>, <<"G","M","A","E">>, <<"G","M","E","A">>,
       <<"A","G","E","M">>, <<"A","G","M","E">>, <<"A","E","G","M">>,
       <<"A","E","M","G">>, <<"A","M","G","E">>, <<"A","M","E","G">>,
       <<"E","G","A","M">>, <<"E","G","M","A">>, <<"E","A","G","M">>,
       <<"E","A","M","G">>, <<"E","M","G","A">>, <<"E","M","A","G">>,
       <<"M","G","A","E">>, <<"M","G","E","A">>, <<"M","A","G","E">>,
       <<"M","A","E","G">>, <<"M","E","G","A">>, <<"M","E","A","G">> >>

\* the set bits of a number below 2^31
BitsOf(v) == {n \in 0..30 : (v \div 2^n) % 2 = 1}

\* the number whose set bits are those of w at positions lo..hi, counted
\* from lo (hi - lo < 31)
FieldValue(w, lo, hi) ==
    LET f[n \in (lo - 1)..hi] ==
            IF n < lo THEN 0
            ELSE f[n - 1] + (IF n \in w THEN 2^(n - lo) ELSE 0)
    IN f[hi]

\* the value of a word as a JavaScript int32 (the result type of ^, | and &)
Int32Value(w) ==
    IF 31 \in w
      THEN (FieldValue(w, 0, 30) - 2147483647) - 1
      ELSE FieldValue(w, 0, 30)

\* x << k on 32 bits
ShiftLeft(w, k) == {n + k : n \in w} \cap BitPositions

\* (x >> k) & 0xff
ByteOf(w, k) == FieldValue(w, k, k + 7)

\* x & 0xffff
LowHalf(w) == w \cap (0..15)

DecryptKey_PidOnly(pid, otid) == pid

\* const key = (pid ^ otid) >>> 0
DecryptKey(pid, otid) == BitXor(pid, otid)

\* encryptedData[i] | encryptedData[i+1] << 8 | encryptedData[i+2] << 16 |
\* encryptedData[i+3] << 24   (i counted from 0)
WordAt(data, i) ==
    BitsOf(data[i + 1]) \cup ShiftLeft(BitsOf(data[i + 2]), 8)
        \cup ShiftLeft(BitsOf(data[i + 3]), 16)
        \cup ShiftLeft(BitsOf(data[i + 4]), 24)

\* the loop of decryptDataBlock: every word XOR key, stored byte by byte
decryptDataBlock(encryptedData, pid, otid) ==
    LET key == DecryptKey(pid, otid) IN
      [j \in 1..Len(encryptedData) |->
          LET i == ((j - 1) \div 4) * 4
              decryptedWord == BitXor(WordAt(encryptedData, i), key)
          IN ByteOf(decryptedWord, 8 * ((j - 1) % 4))]

\* pid % 24 for an unsigned pid
OrderIndex(pid) ==
    LET p[n \in 0..31] == IF n = 0 THEN 1 ELSE (2 * p[n - 1]) % 24
        f[n \in -1..31] ==
            IF n = -1 THEN 0
            ELSE (f[n - 1] + (IF n \in pid THEN p[n] ELSE 0)) % 24
    IN f[31]

\* order.indexOf(substructure): the first position, counted from 0, or -1
IndexOf(order, substructure) ==
    LET hits == {k \in 1..Len(order) : order[k] = substructure} IN
      IF hits = {} THEN -1
      ELSE (CHOOSE k \in hits : \A j \in hits : k <= j) - 1

getSubstructureOffset_Word(pid, substructure) ==
    IndexOf(SUBSTRUCTURE_ORDER[OrderIndex(pid) + 1], substructure) * 4

getSubstructureOffset(pid, substructure) ==
    LET order == SUBSTRUCTURE_ORDER[OrderIndex(pid) + 1]
        position == IndexOf(order, substructure)
    IN position * SUBSTRUCTURE_SIZE

decryptQuantity_HighHalf(encryptedQuantity, securityKey) ==
    Int32Value(BitXor(BitsOf(encryptedQuantity),
                      {n - 16 : n \in securityKey \cap (16..31)}))

\* return encryptedQuantity ^ (securityKey & 0xffff)
decryptQuantity(encryptedQuantity, securityKey) ==
    Int32Value(BitXor(BitsOf(encryptedQuantity), LowHalf(securityKey)))

\* return encryptedMoney ^ securityKey
decryptMoney(encryptedMoney, securityKey) ==
    Int32Value(BitXor(encryptedMoney, securityKey))

\* STATUS_MASKS: SLEEP 0b111, POISON 1 << 3 ... BAD_POISON 1 << 7
STATUS_MASKS ==
    [SLEEP |-> 0..2, POISON |-> ShiftLeftOne(3), BURN |-> ShiftLeftOne(4),
     FREEZE |-> ShiftLeftOne(5), PARALYSIS |-> ShiftLeftOne(6),
     BAD_POISON |-> ShiftLeftOne(7)]

\* status & mask, as the condition of an if
BitAndTruthy(w, mask) == (w \cap mask) # {}

parseStatusCondition_FreezeFirst(status) ==
    IF status = {} THEN "none"
    ELSE IF BitAndTruthy(status, STATUS_MASKS.FREEZE) THEN "freeze"
    ELSE IF BitAndTruthy(status, STATUS_MASKS.BAD_POISON) THEN "bad_poison"
    ELSE IF BitAndTruthy(status, STATUS_MASKS.PARALYSIS) THEN "paralysis"
    ELSE IF BitAndTruthy(status, STATUS_MASKS.BURN) THEN "burn"
    ELSE IF BitAndTruthy(status, STATUS_MASKS.POISON) THEN "poison"
    ELSE IF BitAndTruthy(status, STATUS_MASKS.SLEEP) THEN "sleep"
    ELSE "none"

parseStatusCondition(status) ==
    IF status = {} THEN "none"
    ELSE IF BitAndTruthy(status, STATUS_MASKS.BAD_POISON) THEN "bad_poison"
    ELSE IF BitAndTruthy(status, STATUS_MASKS.PARALYSIS) THEN "paralysis"
    ELSE IF BitAndTruthy(status, STATUS_MASKS.FREEZE) THEN "freeze"
    ELSE IF BitAndTruthy(status, STATUS_MASKS.BURN) THEN "burn"
    ELSE IF BitAndTruthy(status, STATUS_MASKS.POISON) THEN "poison"
    ELSE IF BitAndTruthy(status, STATUS_MASKS.SLEEP) THEN "sleep"
    ELSE "none"

\* ---- the inputs drawn ----
\* status words: every combination of bits 0..7, alone and under high bits
StatusSamples ==
    {low \cup high : low \in SUBSET (0..7), high \in {{}, {8, 31}}}

Substructures == <<"G", "A", "E", "M">>

ByteSamples == {129, 255}

\* 32-bit words: 0, 0xffffffff, 0x80000000, 0x0000ffff, 0x00001234,
\* 0x80011234, 0x7fff0000
WordSamples ==
    { {}, BitPositions, {31}, 0..15, BitsOf(4660),
      BitsOf(4660) \cup {16, 31}, 16..30 }

\* personality values: every residue of 24, below and above 2^31
PidSamples ==
    {BitsOf(v) : v \in 0..23} \cup {BitsOf(v) \cup {31} : v \in 0..23}
        \cup {BitPositions}

KeySamples == { {}, BitPositions, {31}, BitsOf(4660) \cup {16, 31} }

QuantitySamples == {0, 6, 12, 4664, 65535}

\* 48-byte blocks: the four bytes of one word drawn freely, the other
\* eleven words alike
BlockSamples ==
    { [j \in 1..ENCRYPTED_SIZE |->
          IF (j - 1) \div 4 = hot THEN wa[(j - 1) % 4] ELSE wb[(j - 1) % 4]] :
        hot \in 0..((ENCRYPTED_SIZE \div 4) - 1),
        wa \in [0..3 -> ByteSamples],
        wb \in {[k \in 0..3 |-> 0], [k \in 0..3 |-> 37 * (k + 1)]} }

DecodeInputs(op) ==
    CASE op = "decryptDataBlock" ->
            [data : BlockSamples, pid : KeySamples, otid : KeySamples]
      [] op = "getSubstructureOffset" -> [pid : PidSamples]
      [] op = "decryptQuantity" ->
            [encryptedQuantity : QuantitySamples, securityKey : WordSamples]
      [] op = "getPlayerMoney" ->
            [encryptedMoney : WordSamples, securityKey : WordSamples]
      [] op = "parseStatusCondition" -> [status : StatusSamples]

DecodeOps ==
    {"decryptDataBlock", "getSubstructureOffset", "decryptQuantity",
     "getPlayerMoney", "parseStatusCondition"}

InitDecode ==
    /\ mem = [a \in ObjectAddrs |-> {}]
    /\ now = 0
    /\ id = 1
    /\ StunIdle
    /\ gTasks = UniformTasks(CHOOSE r \in TaskRecords : r.isActive = 0)
    /\ simWrites = 0
    /\ ScanIdle
    /\ MenuIdle
    /\ dOp \in DecodeOps
    /\ dIn \in DecodeInputs(dOp)
    /\ dOut = <<>>
    /\ dBack = <<>>
    /\ RestIdle

decodeFrame ==
    <<mem, now, stunVars, obsVars, taskVars, menuVars, restVars, dOp, dIn>>

\* decryptDataBlock(encryptedData, pid, otid)
ApplyDecryptBlock ==
    /\ dOp = "decryptDataBlock"
    /\ dOut = <<>>
    /\ dOut' = decryptDataBlock(dIn.data, dIn.pid, dIn.otid)
    /\ UNCHANGED <<decodeFrame, dBack>>

\* decryptDataBlock applied to its own output with the same pid and otid
ReapplyDecryptBlock ==
    /\ dOp = "decryptDataBlock"
    /\ dOut # <<>>
    /\ dBack = <<>>
    /\ dBack' = decryptDataBlock(dOut, dIn.pid, dIn.otid)
    /\ UNCHANGED <<decodeFrame, dOut>>

\* getSubstructureOffset(pid, s) for s = G, A, E, M
ApplySubstructureOffsets ==
    /\ dOp = "getSubstructureOffset"
    /\ dOut = <<>>
    /\ dOut' = [k \in 1..4 |-> getSubstructureOffset(dIn.pid, Substructures[k])]
    /\ UNCHANGED <<decodeFrame, dBack>>

\* decryptQuantity(encryptedQuantity, key)
ApplyDecryptQuantity ==
    /\ dOp = "decryptQuantity"
    /\ dOut = <<>>
    /\ dOut' = <<decryptQuantity(dIn.encryptedQuantity, dIn.securityKey)>>
    /\ UNCHANGED <<decodeFrame, dBack>>

\* decryptQuantity applied to its own output with the same key
ReapplyDecryptQuantity ==
    /\ dOp = "decryptQuantity"
    /\ dOut # <<>>
    /\ dBack = <<>>
    /\ dBack' = <<decryptQuantity(dOut[1], dIn.securityKey)>>
    /\ UNCHANGED <<decodeFrame, dOut>>

\* getPlayerMoney once its three reads have answered: encryptedMoney and
\* securityKey are the words read
ApplyPlayerMoney ==
    /\ dOp = "getPlayerMoney"
    /\ dOut = <<>>
    /\ dOut' = <<decryptMoney(dIn.encryptedMoney, dIn.securityKey)>>
    /\ UNCHANGED <<decodeFrame, dBack>>

\* parseStatusCondition(status)
ApplyStatusCondition ==
    /\ dOp = "parseStatusCondition"
    /\ dOut = <<>>
    /\ dOut' = <<parseStatusCondition(dIn.status)>>
    /\ UNCHANGED <<decodeFrame, dBack>>

NextDecode ==
    \/ ApplyDecryptBlock
    \/ ReapplyDecryptBlock
    \/ ApplySubstructureOffsets
    \/ ApplyDecryptQuantity
    \/ ReapplyDecryptQuantity
    \/ ApplyPlayerMoney
    \/ ApplyStatusCondition

SpecDecode == InitDecode /\ [][NextDecode]_vars

(***************************************************************************)
(* The bag: getSecurityKey, getPocket, getBagContents, getTotalPokeBalls   *)
(* and getPokeBallCounts                                                   *)
(***************************************************************************)
MaxKeyChanges == 1

ITEM_SLOT_SIZE == 4

BAG_POCKETS ==
    [Items |-> [offset |-> 0, capacity |-> 30],
     KeyItems |-> [offset |-> 120, capacity |-> 30],
     PokeBalls |-> [offset |-> 240, capacity |-> 16],
     TMsHMs |-> [offset |-> 304, capacity |-> 64],
     Berries |-> [offset |-> 560, capacity |-> 46]]

\* the item table (constants/itemMap) as far as the scenarios name it
ITEM_NAMES == (11 :> "Poke Ball")

\* getItemName(itemId) ?? `UNKNOWN_${itemId}`
ItemNameOrUnknown(itemId) ==
    IF itemId \in DOMAIN ITEM_NAMES
      THEN ITEM_NAMES[itemId]
      ELSE "UNKNOWN_" \o ToString(itemId)

\* dataView.getUint16(offset, true) raises a RangeError unless the two
\* bytes lie inside the buffer.  The byte array readRange answered with is
\* [length, byte]: its length and its bytes by index (counted from 0)
Uint16InBounds(data, offset) == offset + 2 <= data.length

\* dataView.getUint16(offset, true) inside the buffer: little-endian
GetUint16(data, offset) == data.byte[offset] + 256 * data.byte[offset + 1]

SkipsEmpty_Never(itemId) == FALSE

\* if (itemId === 0) continue
SkipsEmpty(itemId) == itemId = 0

\* the item pushed by a turn of the loop of getPocket that does not skip
\* slot i
PocketSlot(data, i, key) ==
    LET offset == i * ITEM_SLOT_SIZE
        itemId == GetUint16(data, offset)
        encryptedQuantity == GetUint16(data, offset + 2)
    IN [id |-> itemId,
        name |-> ItemNameOrUnknown(itemId),
        quantity |-> decryptQuantity(encryptedQuantity, key)]

\* the loop raises at the first slot whose itemId, or whose quantity when
\* the slot is not skipped, lies outside the buffer
PocketRaises(data, capacity) ==
    \E i \in 0..(capacity - 1) :
        LET offset == i * ITEM_SLOT_SIZE IN
          \/ ~Uint16InBounds(data, offset)
          \/ /\ ~SkipsEmpty(GetUint16(data, offset))
             /\ ~Uint16InBounds(data, offset + 2)

\* the items pushed by the loop when it does not raise, in slot order
PocketItems(data, capacity, key) ==
    LET kept == SelectSeq([k \in 1..capacity |-> k - 1],
                          LAMBDA i : ~SkipsEmpty(GetUint16(data, i * ITEM_SLOT_SIZE)))
    IN [k \in 1..Len(kept) |-> PocketSlot(data, kept[k], key)]

RECURSIVE SumQuantities(_)
\* pokeBalls.reduce((sum, ball) => sum + ball.quantity, 0)
SumQuantities(items) ==
    IF items = <<>> THEN 0
    ELSE items[1].quantity + SumQuantities(Tail(items))

\* counts.set(ball.name, ball.quantity) for each ball in order: the last
\* entry of a name stays
CountsOf(items) ==
    [n \in {items[k].name : k \in 1..Len(items)} |->
        LET ks == {k \in 1..Len(items) : items[k].name = n}
            last == CHOOSE k \in ks : \A j \in ks : j <= k
        IN items[last].quantity]

\* getBagContents passes securityKey to each getPocket; the ball counters
\* and a direct call do not
PassesKey(c) == c = "getBagContents"

KeyUsed_Reread(held, inMemory) == inMemory

\* const key = securityKey ?? await getSecurityKey(): the value passed, or
\* the value the call's own getSecurityKey returned, not memory as it is
\* when the pocket data arrives
KeyUsed(held, inMemory) == held

\* ---- what memory holds ----
BagKeys == { {}, BitsOf(4660) \cup {16, 31}, 0..15 }

BagPatterns == {"empty", "sparse", "dupes", "full"}

\* the slots of a pocket image: <<itemId, encryptedQuantity>> of slot i;
\* under "full" every slot of the Poke Balls pocket holds an item
PatternSlot(pat, pocketName, capacity, i) ==
    CASE pat = "empty" -> <<0, 0>>
      [] pat = "sparse" ->
            IF i = 0 THEN <<11, 6>>
            ELSE IF i = 2 THEN <<260, 4664>>
            ELSE <<0, 0>>
      [] pat = "dupes" ->
            IF i = 1 THEN <<11, 6>>
            ELSE IF i = capacity - 1 THEN <<11, 7>>
            ELSE <<0, 0>>
      [] pat = "full" ->
            IF pocketName = "PokeBalls" THEN <<1 + (i % 3), 300 + i>>
            ELSE <<0, 0>>

\* the bytes of every pocket under every pattern, by offset from the
\* pocket address
PocketImages ==
    [pat \in BagPatterns |-> [pocketName \in PocketNames |->
        LET capacity == BAG_POCKETS[pocketName].capacity IN
          [j \in 0..(capacity * ITEM_SLOT_SIZE - 1) |->
              LET slot == PatternSlot(pat, pocketName, capacity, j \div 4)
                  lane == j % 4
              IN IF lane = 0 THEN slot[1] % 256
                 ELSE IF lane = 1 THEN slot[1] \div 256
                 ELSE IF lane = 2 THEN slot[2] % 256
                 ELSE slot[2] \div 256]]]

\* the bytes of a pocket in memory
PocketBytes(pocketName) == PocketImages[bagPattern][pocketName]

\* the answer of readRange(pocketAddr, ...) when it has len bytes
RangeResponse(pocketName, len) ==
    [length |-> len, byte |-> PocketBytes(pocketName)]

\* lengths of the byte array readRange answers with: the length asked
\* for, two bytes less, and one slot only
ResponseLengths(capacity) ==
    {capacity * ITEM_SLOT_SIZE, capacity * ITEM_SLOT_SIZE - 2, ITEM_SLOT_SIZE}

BagCalls == {"getPocket", "getBagContents", "pokeBalls"}

InitBag ==
    /\ mem = [a \in ObjectAddrs |-> {}]
    /\ now = 0
    /\ id = 1
    /\ StunIdle
    /\ gTasks = UniformTasks(CHOOSE r \in TaskRecords : r.isActive = 0)
    /\ simWrites = 0
    /\ ScanIdle
    /\ MenuIdle
    /\ DecIdle
    /\ secKeyMem \in BagKeys
    /\ bagPattern \in BagPatterns
    /\ keyChanges = 0
    /\ bCall \in BagCalls
    /\ bArg \in IF bCall = "getPocket" THEN PocketNames
                ELSE IF bCall = "pokeBalls" THEN {"PokeBalls"} ELSE {"none"}
    /\ kpc = "ptr"
    /\ keyHeld = <<>>
    /\ ppc = [p \in PocketNames |-> "idle"]
    /\ pItems = [p \in PocketNames |-> <<>>]
    /\ bResult = "pending"
    /\ ballStage = IF bCall = "pokeBalls" THEN "total" ELSE "none"
    /\ ballTotal = 0
    /\ ballCounts = <<>>
    /\ nKeyReads = 0
    /\ nPocketReads = 0
    /\ pocketReadsAtKey = -1
    /\ shortOk = FALSE
    /\ keySeen = <<>>
    /\ LateIdle

notBagVars ==
    <<mem, now, stunVars, obsVars, taskVars, menuVars, decVars, lateVars>>

\* getSecurityKey: readUint32(SAVE_BLOCK_2_PTR_ADDR) answers
KeyPtrRead ==
    /\ bResult = "pending"
    /\ kpc = "ptr"
    /\ kpc' = "key"
    /\ UNCHANGED <<emuBagVars, bCall, bArg, keyHeld, ppc, pItems, bResult,
                   ballStage, ballTotal, ballCounts, bagObsVars>>
    /\ UNCHANGED notBagVars

\* getSecurityKey: readUint32(saveBlock2Ptr + SECURITY_KEY_OFFSET) answers;
\* the caller goes on to its first await: getBagContents starts the five
\* getPocket calls of Promise.all, each of which passes key = securityKey
\* and issues its pointer read; getPocket called without a key issues its
\* own pointer read
KeyRead ==
    /\ bResult = "pending"
    /\ kpc = "key"
    /\ kpc' = "done"
    /\ keyHeld' = <<secKeyMem>>
    /\ nKeyReads' = nKeyReads + 1
    /\ keySeen' = Append(keySeen, secKeyMem)
    /\ pocketReadsAtKey' = IF nKeyReads = 0 THEN nPocketReads ELSE pocketReadsAtKey
    /\ ppc' = [p \in PocketNames |->
                 IF PassesKey(bCall) \/ p = bArg THEN "ptr" ELSE ppc[p]]
    /\ UNCHANGED <<emuBagVars, bCall, bArg, pItems, bResult, ballStage,
                   ballTotal, ballCounts, nPocketReads, shortOk>>
    /\ UNCHANGED notBagVars

\* getPocket: readUint32(SAVE_BLOCK_1_PTR_ADDR) answers; readRange is issued
PocketPtrRead(p) ==
    /\ bResult = "pending"
    /\ ppc[p] = "ptr"
    /\ ppc' = [ppc EXCEPT ![p] = "range"]
    /\ nPocketReads' = nPocketReads + 1
    /\ UNCHANGED <<emuBagVars, bCall, bArg, kpc, keyHeld, pItems, bResult,
                   ballStage, ballTotal, ballCounts, nKeyReads,
                   pocketReadsAtKey, shortOk, keySeen>>
    /\ UNCHANGED notBagVars

\* the call has raised: its locals and the results of the getPocket calls
\* still in flight are dropped
CallDropped ==
    /\ kpc' = "done"
    /\ keyHeld' = <<>>
    /\ ppc' = [p \in PocketNames |-> "idle"]
    /\ pItems' = [p \in PocketNames |-> <<>>]

\* what the caller of a getPocket that returned does next
AfterPocket(p, items) ==
    CASE bCall = "getPocket" ->
            /\ bResult' = "ok"
            /\ ppc' = [ppc EXCEPT ![p] = "done"]
            /\ UNCHANGED <<kpc, keyHeld, ballStage, ballTotal, ballCounts>>
      [] bCall = "getBagContents" ->
            /\ bResult' = IF \A q \in PocketNames \ {p} : ppc[q] = "done"
                            THEN "ok" ELSE "pending"
            /\ ppc' = [ppc EXCEPT ![p] = "done"]
            /\ UNCHANGED <<kpc, keyHeld, ballStage, ballTotal, ballCounts>>
      [] bCall = "pokeBalls" /\ ballStage = "total" ->
            \* getTotalPokeBalls returns; getPokeBallCounts is called
            /\ ballTotal' = SumQuantities(items)
            /\ ballStage' = "counts"
            /\ kpc' = "ptr"
            /\ keyHeld' = <<>>
            /\ ppc' = [ppc EXCEPT ![p] = "idle"]
            /\ UNCHANGED <<bResult, ballCounts>>
      [] bCall = "pokeBalls" /\ ballStage = "counts" ->
            /\ ballCounts' = CountsOf(items)
            /\ ballStage' = "done"
            /\ bResult' = "ok"
            /\ ppc' = [ppc EXCEPT ![p] = "done"]
            /\ UNCHANGED <<kpc, keyHeld, ballTotal>>

\* getPocket: readRange answers with some number of bytes; the loop decodes
\* them or raises the RangeError of DataView
PocketRangeRead(p) ==
    /\ bResult = "pending"
    /\ ppc[p] = "range"
    /\ \E len \in ResponseLengths(BAG_POCKETS[p].capacity) :
         LET data == RangeResponse(p, len)
             capacity == BAG_POCKETS[p].capacity
         IN IF PocketRaises(data, capacity)
              THEN /\ bResult' = "RangeError"
                   /\ CallDropped
                   /\ UNCHANGED <<ballStage, ballTotal, ballCounts, shortOk>>
              ELSE LET items == PocketItems(data, capacity,
                                        KeyUsed(keyHeld[1], secKeyMem)) IN
                     /\ pItems' = [pItems EXCEPT ![p] = items]
                     /\ shortOk' = (shortOk \/ len < capacity * ITEM_SLOT_SIZE)
                     /\ AfterPocket(p, items)
    /\ nPocketReads' = nPocketReads + 1
    /\ UNCHANGED <<emuBagVars, bCall, bArg, nKeyReads, pocketReadsAtKey,
                   keySeen>>
    /\ UNCHANGED notBagVars

\* a read that is pending gets a response that is not ok: the error
\* propagates out of the call
BagReadFails ==
    /\ bResult = "pending"
    /\ \/ kpc \in {"ptr", "key"}
       \/ \E p \in PocketNames : ppc[p] \in {"ptr", "range"}
    /\ bResult' = "TransportError"
    /\ CallDropped
    /\ UNCHANGED <<emuBagVars, bCall, bArg, ballStage, ballTotal, ballCounts,
                   bagObsVars>>
    /\ UNCHANGED notBagVars

\* the game changes the security key in memory
SimKeyChange ==
    /\ keyChanges < MaxKeyChanges
    /\ keyChanges' = keyChanges + 1
    /\ \E k \in BagKeys \ {secKeyMem} : secKeyMem' = k
    /\ UNCHANGED <<bagPattern, bagCallVars, bagObsVars>>
    /\ UNCHANGED notBagVars

BagStep ==
    \/ KeyPtrRead
    \/ KeyRead
    \/ \E p \in PocketNames : PocketPtrRead(p)
    \/ \E p \in PocketNames : PocketRangeRead(p)
    \/ BagReadFails

NextBag == BagStep \/ SimKeyChange

SpecBag == InitBag /\ [][NextBag]_vars

(***************************************************************************)
(* getPokemon (pokemon/index.ts)                                           *)
(***************************************************************************)
MaxPartyChanges == 1

PLAYER_PARTY_ADDR == 33703148
POKEMON_SIZE == 100
PLAYER_PARTY_COUNT_ADDR == 33703145
PARTY_SIZE == 6
SPDEF == 98

\* the emulator and the operations modelled above, at rest
QuietStart ==
    /\ mem = [a \in ObjectAddrs |-> {}]
    /\ now = 0
    /\ id = 1
    /\ StunIdle
    /\ gTasks = UniformTasks(CHOOSE r \in TaskRecords : r.isActive = 0)
    /\ simWrites = 0
    /\ ScanIdle
    /\ MenuIdle
    /\ DecIdle
    /\ BagIdle

InvalidSlot_Inclusive(slot) == slot < 0 \/ slot > PARTY_SIZE

\* if (slot < 0 || slot >= PARTY_SIZE) throw
InvalidSlot(slot) == slot < 0 \/ slot >= PARTY_SIZE

Slots == {-2, -1, 0, 1, 5, 6, 7}
PartyCounts == 0..PARTY_SIZE

\* lengths of the answer to readRange(baseAddr, POKEMON_SIZE)
RecordLengths == {POKEMON_SIZE, POKEMON_SIZE - 2}

InitPokemon ==
    /\ QuietStart
    /\ HoldIdle
    /\ SaveIdle
    /\ RaceIdle
    /\ partyCountMem \in PartyCounts
    /\ partyChanges = 0
    /\ gpSlot \in Slots
    /\ gpc = "entry"
    /\ gpResult = "pending"
    /\ gpReadAddrs = <<>>

notPokVars ==
    <<mem, now, stunVars, obsVars, taskVars, menuVars, decVars, bagVars,
      holdVars, saveVars, raceVars>>

\* the check of the argument at entry
PokemonEntry ==
    /\ gpc = "entry"
    /\ IF InvalidSlot(gpSlot)
       THEN gpc' = "done" /\ gpResult' = "InvalidSlot"
       ELSE gpc' = "count" /\ gpResult' = gpResult
    /\ UNCHANGED <<partyCountMem, partyChanges, gpSlot, gpReadAddrs>>
    /\ UNCHANGED notPokVars

\* const partyCount = await getPartyCount(); if (slot >= partyCount) return null
PokemonCountRead ==
    /\ gpc = "count"
    /\ gpReadAddrs' = Append(gpReadAddrs, PLAYER_PARTY_COUNT_ADDR)
    /\ \/ gpc' = "done" /\ gpResult' = "TransportError"
       \/ IF gpSlot >= partyCountMem
          THEN gpc' = "done" /\ gpResult' = "null"
          ELSE gpc' = "range" /\ gpResult' = gpResult
    /\ UNCHANGED <<partyCountMem, partyChanges, gpSlot>>
    /\ UNCHANGED notPokVars

\* const rawData = await readRange(baseAddr, POKEMON_SIZE) and the decode of
\* the record: the DataView reads up to SPDEF raise a RangeError on a
\* shorter answer
PokemonRangeRead ==
    /\ gpc = "range"
    /\ gpReadAddrs' =
           Append(gpReadAddrs, PLAYER_PARTY_ADDR + gpSlot * POKEMON_SIZE)
    /\ gpc' = "done"
    /\ \/ gpResult' = "TransportError"
       \/ \E len \in RecordLengths :
              gpResult' = IF SPDEF + 2 <= len THEN "pokemon" ELSE "RangeError"
    /\ UNCHANGED <<partyCountMem, partyChanges, gpSlot>>
    /\ UNCHANGED notPokVars

\* the simulation adds or removes party members while the call runs
SimPartyChange ==
    /\ partyChanges < MaxPartyChanges
    /\ partyChanges' = partyChanges + 1
    /\ partyCountMem' \in PartyCounts \ {partyCountMem}
    /\ UNCHANGED <<gpSlot, gpc, gpResult, gpReadAddrs>>
    /\ UNCHANGED notPokVars

PokemonStep == PokemonEntry \/ PokemonCountRead \/ PokemonRangeRead

NextPokemon == PokemonStep \/ SimPartyChange

SpecPokemon == InitPokemon /\ [][NextPokemon]_vars

(***************************************************************************)
(* holdButtons (tools/src/mgba/input.ts), isMachBike (player state)        *)
(***************************************************************************)
MaxFlagChanges == 1

AVATAR_FLAG_MACH_BIKE == 2
AVATAR_FLAG_ACRO_BIKE == 4

isMachBike_AnyBike(flags) ==
    BitAndTruthy(BitsOf(flags),
                 BitsOf(AVATAR_FLAG_MACH_BIKE) \cup BitsOf(AVATAR_FLAG_ACRO_BIKE))

\* (flags & AVATAR_FLAG_MACH_BIKE) !== 0
isMachBike(flags) == BitAndTruthy(BitsOf(flags), BitsOf(AVATAR_FLAG_MACH_BIKE))

\* on foot, running, Mach Bike, Acro Bike, surfing, and bytes with further bits
AvatarFlagSamples == {0, 1, 2, 4, 8, 3, 253, 255}
Buttons == {"Up", "A", "B"}
Durations == {100, 2000}

InitHold ==
    /\ QuietStart
    /\ PokIdle
    /\ SaveIdle
    /\ RaceIdle
    /\ avatarFlags \in AvatarFlagSamples
    /\ flagChanges = 0
    /\ hbButton \in Buttons
    /\ hbDuration \in Durations
    /\ hpc = "flags"
    /\ hbResult = "pending"
    /\ flagsRead = <<>>
    /\ posted = <<>>

notHoldVars ==
    <<mem, now, stunVars, obsVars, taskVars, menuVars, decVars, bagVars,
      pokVars, saveVars, raceVars>>

\* const onMachBike = await isMachBike(); if (!onMachBike) throw
HoldFlagsRead ==
    /\ hpc = "flags"
    /\ \/ /\ hpc' = "done"
          /\ hbResult' = "TransportError"
          /\ flagsRead' = flagsRead
       \/ /\ flagsRead' = <<avatarFlags>>
          /\ IF isMachBike(avatarFlags)
             THEN hpc' = "post" /\ hbResult' = hbResult
             ELSE hpc' = "done" /\ hbResult' = "SafetyConstraint"
    /\ UNCHANGED <<avatarFlags, flagChanges, hbButton, hbDuration, posted>>
    /\ UNCHANGED notHoldVars

\* try { await postToMgba("/buttons/hold", { button, duration }); return true }
\* catch { return false }
HoldPost ==
    /\ hpc = "post"
    /\ posted' = Append(posted, [button |-> hbButton, duration |-> hbDuration])
    /\ hpc' = "done"
    /\ hbResult' \in {"true", "false"}
    /\ UNCHANGED <<avatarFlags, flagChanges, hbButton, hbDuration, flagsRead>>
    /\ UNCHANGED notHoldVars

\* the simulation changes the avatar flags (the player dismounts, mounts, ...)
SimAvatarChange ==
    /\ flagChanges < MaxFlagChanges
    /\ flagChanges' = flagChanges + 1
    /\ avatarFlags' \in AvatarFlagSamples \ {avatarFlags}
    /\ UNCHANGED <<hbButton, hbDuration, hpc, hbResult, flagsRead, posted>>
    /\ UNCHANGED notHoldVars

HoldStep == HoldFlagsRead \/ HoldPost

NextHold == HoldStep \/ SimAvatarChange

SpecHold == InitHold /\ [][NextHold]_vars

(***************************************************************************)
(* SaveStateManager, withSaveState (core testing helpers)                  *)
(***************************************************************************)
EmulatorStates == {"overworld", "battle", "title"}
Fixtures == {"partySlot0", "bagOpen", "startMenu"}

InitSave ==
    /\ QuietStart
    /\ PokIdle
    /\ HoldIdle
    /\ RaceIdle
    /\ emuState \in EmulatorStates
    /\ backupFile = <<>>
    /\ statePath \in Fixtures
    /\ wpc = "backup"
    /\ backupPath = <<>>
    /\ wErr = "none"
    /\ wResult = "pending"
    /\ nRestores = 0

notSaveVars ==
    <<mem, now, stunVars, obsVars, taskVars, menuVars, decVars, bagVars,
      pokVars, holdVars, raceVars>>

\* await manager.backup(), on a new manager (backupPath is null): the path is
\* assigned before saveStateFile is awaited, and a failure leaves the try
\* block unentered
SaveBackup ==
    /\ wpc = "backup"
    /\ backupPath = <<>>
    /\ backupPath' = <<"tmp">>
    /\ \/ backupFile' = <<emuState>> /\ wpc' = "load" /\ wResult' = wResult
       \/ backupFile' = backupFile /\ wpc' = "done" /\ wResult' = "BackupError"
    /\ UNCHANGED <<emuState, statePath, wErr, nRestores>>
    /\ UNCHANGED notSaveVars

\* await manager.load(statePath)
SaveLoad ==
    /\ wpc = "load"
    /\ \/ emuState' = statePath /\ wpc' = "test" /\ wErr' = wErr
       \/ emuState' = emuState /\ wpc' = "restore" /\ wErr' = "LoadError"
    /\ UNCHANGED <<backupFile, statePath, backupPath, wResult, nRestores>>
    /\ UNCHANGED notSaveVars

\* return await testFn(): the test may drive the emulator on, and may throw
SaveTest ==
    /\ wpc = "test"
    /\ emuState' \in {emuState, "played"}
    /\ wErr' \in {"none", "TestError"}
    /\ wpc' = "restore"
    /\ UNCHANGED <<backupFile, statePath, backupPath, wResult, nRestores>>
    /\ UNCHANGED notSaveVars

\* try { ... } finally { await manager.restore() }: an error thrown by the
\* finally block replaces the one of the try block
Settles(tryError, restoreError) ==
    IF restoreError # "none" THEN restoreError
    ELSE IF tryError # "none" THEN tryError
    ELSE "ok"

\* manager.restore(): a no-op without a backup; else loadStateFile, and in
\* its finally the unlink (errors ignored) and backupPath = null
SaveRestore ==
    /\ wpc = "restore"
    /\ nRestores' = nRestores + 1
    /\ wpc' = "done"
    /\ IF backupPath = <<>>
       THEN /\ wResult' = Settles(wErr, "none")
            /\ UNCHANGED <<emuState, backupFile, backupPath>>
       ELSE /\ backupPath' = <<>>
            /\ backupFile' \in {<<>>, backupFile}
            /\ \/ /\ backupFile # <<>>
                  /\ emuState' = backupFile[1]
                  /\ wResult' = Settles(wErr, "none")
               \/ /\ emuState' = emuState
                  /\ wResult' = Settles(wErr, "RestoreError")
    /\ UNCHANGED <<statePath, wErr>>
    /\ UNCHANGED notSaveVars

NextSave == SaveBackup \/ SaveLoad \/ SaveTest \/ SaveRestore

SpecSave == InitSave /\ [][NextSave]_vars

(***************************************************************************)
(* isAnyMenuOpen against a simulation that keeps running                   *)
(***************************************************************************)
\* the entry getActiveTasks would push for slot n of memory g
EntryOfSlot(g, n) ==
    ActiveTask(n, g[TaskAddr(n) + TASK_OFFSET_FUNC],
               g[TaskAddr(n) + TASK_OFFSET_PRIORITY],
               g[TaskAddr(n) + TASK_OFFSET_PREV])

\* some active slot of memory g holds a task that meets the criterion of
\* isPartyMenuOpen, isStartMenuOpen or isBagMenuOpen
MenuInMemory(g) ==
    \E n \in TaskSlots :
        /\ g[TaskAddr(n) + TASK_OFFSET_IS_ACTIVE] # 0
        /\ \E p \in {"party", "start", "bag"} :
               MenuPredicate(p, <<EntryOfSlot(g, n)>>)

InitMenuRace ==
    /\ mem = [a \in ObjectAddrs |-> {}]
    /\ now = 0
    /\ id = 1
    /\ StunIdle
    /\ \E r1 \in MenuRecords :
           gTasks = MenuTasks(r1, CHOOSE r \in MenuRecords : r.isActive = 0)
    /\ simWrites = 0
    /\ ScanIdle
    /\ battleByte = 0
    /\ call = "isAnyMenuOpen"
    /\ phase = FirstPhase(call)
    /\ callResult = "pending"
    /\ headTask = <<>>
    /\ DecIdle
    /\ BagIdle
    /\ PokIdle
    /\ HoldIdle
    /\ SaveIdle
    /\ menuAlways = MenuInMemory(gTasks)

\* while the call runs the simulation replaces the task of one slot in one
\* step (one menu closes as another opens, a task ends, a task starts)
SimMenuWrite ==
    /\ callResult = "pending"
    /\ simWrites < MaxTaskWrites
    /\ simWrites' = simWrites + 1
    /\ \E k \in DOMAIN MenuSlots, r \in MenuRecords :
         gTasks' = SlotImage(MenuSlots[k], r) @@ gTasks
    /\ menuAlways' = (menuAlways /\ MenuInMemory(gTasks'))
    /\ UNCHANGED <<mem, now, stunVars, obsVars, scanVars, menuVars, decVars,
                   bagVars, pokVars, holdVars, saveVars>>

NextMenuRace == ScanStep \/ AnyMenuStep \/ SimMenuWrite

SpecMenuRace == InitMenuRace /\ [][NextMenuRace]_vars

(***************************************************************************)
(* Claims about stunNpc                                                    *)
(***************************************************************************)
ValidId == id \in 1..15

\* C1: stunNpc never toggles the frozen bit while the entity is mid-step:
\* when the write lands, neither bit 1 nor bit 6 is set in the live flags
\* word of the entity.
C1_WriteNeverLandsMidStep ==
    result = "true" => IdleWord(preWrite)

\* C2: a write is issued only after a poll returned a word with bits 1 and 6
\* clear; between that safe poll and the write exactly one further read is
\* issued, of the same address; no write follows a busy poll without a later
\* safe poll.
C2_WriteOnlyAfterSafePoll ==
    (pc = "write" \/ nWrites > 0) =>
        /\ lastPoll = "safe"
        /\ readsSinceSafe = 1
        /\ readAddrs = {OBJECT_EVENTS_ADDR + id * 36}

C2_Witness ==
    /\ nWrites = 1
    /\ nBusy >= 1
    /\ lastPoll = "safe"

\* C3: when every poll up to the timeout returned a busy word, the call fails
\* with the busy-timeout error and has issued no write.
C3_TimeoutWritesNothing ==
    /\ result = "BusyTimeout" => (nWrites = 0 /\ writeAddr = 0 /\ nBusy = nPolls)
    /\ (pc = "done" /\ ValidId /\ lastPoll = "busy") =>
           (result = "BusyTimeout" /\ nWrites = 0)

C3_Witness ==
    /\ result = "BusyTimeout"
    /\ nPolls > 1
    /\ ~IdleWord(mem[OBJECT_EVENTS_ADDR + id * 36])

\* C4: an id outside 1..15 (0 and 16 included) fails at once with the range
\* error; no read and no write is issued.
C4_InvalidIdTouchesNothing ==
    (~ValidId /\ pc # "entry") =>
        /\ pc = "done"
        /\ result = "InvalidId"
        /\ nReads = 0
        /\ nWrites = 0
        /\ readAddrs = {}
        /\ writeAddr = 0

C4_Witness ==
    /\ id \in {0, 16}
    /\ result = "InvalidId"

\* C5: on success exactly one write was issued, to the address that was
\* polled (OBJECT_EVENTS_ADDR + id*0x24), and the value written is the re-read
\* value with bit 8 flipped and the other 31 bits unchanged.
C5_WritesRereadXorFrozen ==
    result = "true" =>
        /\ nWrites = 1
        /\ writeAddr = OBJECT_EVENTS_ADDR + id * 36
        /\ readAddrs = {writeAddr}
        /\ \A b \in BitPositions :
               (b \in written) <=> IF b = 8 THEN b \notin currentFlags
                                           ELSE b \in currentFlags

C5_Witness ==
    /\ result = "true"
    /\ 8 \in currentFlags
    /\ 8 \notin written

\* C6: the write leaves every bit other than the frozen bit untouched in the
\* live word: the word after the write differs from the word immediately
\* before it only in bit 8.
C6_WriteChangesOnlyFrozenBit ==
    result = "true" => BitXor(preWrite, postWrite) = {8}

\* C7: after success the NPC is frozen: bit 8 of the written value is set,
\* whatever the re-read returned.
C7_FrozenAfterSuccess ==
    result = "true" => 8 \in written

\* C8: k busy polls followed by an idle one end in success after exactly k
\* waits, k+2 reads (k busy polls, the safe poll, the re-read) and one write.
C8_CountsOnSuccess ==
    /\ result = "true" =>
           /\ nWaits = nBusy
           /\ nPolls = nBusy + 1
           /\ nReads = nBusy + 2
           /\ nWrites = 1
    /\ (pc = "done" /\ lastPoll = "safe" /\ result # "TransportError") =>
           result = "true"

C8_Witness ==
    /\ result = "true"
    /\ nBusy = 2
    /\ nWaits = 2
    /\ nReads = 4

C10_ActiveTasksWellFormed ==
    /\ Len(tasks) <= 16
    /\ \A k \in 1..Len(tasks) :
         /\ tasks[k].id \in 0..15
         /\ activeSeen[tasks[k].id] > 0
         /\ \A j \in 1..(k - 1) : tasks[j].id < tasks[k].id

C10_Witness ==
    /\ tResult = "ok"
    /\ Len(tasks) = 16
    /\ \E n \in TaskSlots : gTasks[TaskAddr(n) + TASK_OFFSET_IS_ACTIVE] = 0

(***************************************************************************)
(* Claims about getHeadTask and the menu predicates                        *)
(***************************************************************************)
\* what task memory holds, read directly (memory is static under SpecMenu)
ActiveSlots ==
    {n \in TaskSlots : gTasks[TaskAddr(n) + TASK_OFFSET_IS_ACTIVE] # 0}

HeadSlots ==
    {n \in ActiveSlots : gTasks[TaskAddr(n) + TASK_OFFSET_PREV] = 254}

SlotFunc(n) == gTasks[TaskAddr(n) + TASK_OFFSET_FUNC]

\* the pointer with bit 0 flipped
FlipThumbBit(a) == IF a % 2 = 0 THEN a + 1 ELSE a - 1

\* the battle-menu predicate of the package specification, which the
\* sources do not implement: taken as the in-battle bit
isInBattleMenu == isInBattle(battleByte)

HeadReturned == call = "getHeadTask" /\ callResult \in {"null", "task"}

\* C11: when more than one active record carries the head sentinel as its
\* previous link, getHeadTask does not resolve the read to one of the
\* records: it does not return a task.
C11_ManyHeadsReported ==
    (HeadReturned /\ Cardinality(HeadSlots) > 1) => callResult # "task"

\* C12: with exactly one active record whose previous link is the head
\* sentinel, getHeadTask returns the entry of that record; with none (the
\* empty set included) it returns null, and it does not raise on its own:
\* it raises only when the scan did.
C12_OneHeadOrNull ==
    /\ (HeadReturned /\ Cardinality(HeadSlots) = 1) =>
          /\ callResult = "task"
          /\ Len(headTask) = 1
          /\ headTask[1].id \in HeadSlots
          /\ headTask[1].funcAddress = SlotFunc(headTask[1].id)
    /\ (HeadReturned /\ HeadSlots = {}) =>
          /\ callResult = "null"
          /\ headTask = <<>>
    /\ (call = "getHeadTask" /\ callResult = "raised") =>
          tResult = "TransportError"

\* one head, behind an active record that is not a head
C12_Witness ==
    /\ HeadReturned
    /\ callResult = "task"
    /\ Cardinality(HeadSlots) = 1
    /\ \E n \in ActiveSlots \ HeadSlots : \A h \in HeadSlots : n < h

\* active records, none of them a head
C12_WitnessNull ==
    /\ HeadReturned
    /\ callResult = "null"
    /\ ActiveSlots # {}

\* C13: pointer resolution ignores bit 0 in both tiers: for the pointer of
\* every entry the scan produced, the table lookup gives the same name for
\* the pointer and for the pointer with bit 0 flipped, and each range test
\* gives the same membership for both.
C13_ResolutionIgnoresBit0 ==
    \A k \in 1..Len(tasks) :
        LET a == tasks[k].funcAddress IN
          /\ getTaskFunctionName(a) = getTaskFunctionName(FlipThumbBit(a))
          /\ \A range \in {PARTY_MENU_RANGE, ITEM_MENU_RANGE, LIST_MENU_RANGE} :
                isAddressInRange(a, range)
                    <=> isAddressInRange(FlipThumbBit(a), range)

\* C14: the menu predicates never raise: once isPartyMenuOpen,
\* isStartMenuOpen, isBagMenuOpen or isAnyMenuOpen has ended, it has
\* returned a boolean, also when a read of the scan failed.
C14_PredicatesNeverRaise ==
    (call \in {"isPartyMenuOpen", "isStartMenuOpen", "isBagMenuOpen",
               "isAnyMenuOpen"} /\ callResult # "pending")
        => callResult \in {"true", "false"}

\* the pointer of the only active task, bit 0 cleared
OnlyActivePointer ==
    LET n == CHOOSE m \in ActiveSlots : TRUE IN
      SlotFunc(n) - (SlotFunc(n) % 2)

\* C15: when the pointer of the only active task, bit 0 cleared, lies in
\* [0x081b0038, 0x081b99b4), isPartyMenuOpen returns true and isBagMenuOpen
\* returns false; the end 0x081b99b4 itself is outside (isPartyMenuOpen
\* returns false for it), and the party range shares no address with the
\* two bag ranges.
C15_PartyRangeHalfOpen ==
    /\ (Cardinality(ActiveSlots) = 1 /\ OnlyActivePointer >= 135987256
            /\ OnlyActivePointer < 136026548) =>
          /\ (call = "isPartyMenuOpen" /\ callResult \in {"true", "false"})
                => callResult = "true"
          /\ (call = "isBagMenuOpen" /\ callResult \in {"true", "false"})
                => callResult = "false"
    /\ (Cardinality(ActiveSlots) = 1 /\ OnlyActivePointer = 136026548
            /\ call = "isPartyMenuOpen" /\ callResult \in {"true", "false"})
          => callResult = "false"
    /\ PARTY_MENU_RANGE[1] >= ITEM_MENU_RANGE[2]
    /\ PARTY_MENU_RANGE[1] >= LIST_MENU_RANGE[2]

\* the only active pointer is the first address of the party range, with
\* the Thumb bit set or not
C15_Witness ==
    /\ Cardinality(ActiveSlots) = 1
    /\ OnlyActivePointer = 135987256
    /\ call = "isBagMenuOpen"
    /\ callResult = "false"

\* the only active pointer is the excluded end of the party range
C15_WitnessEnd ==
    /\ Cardinality(ActiveSlots) = 1
    /\ OnlyActivePointer = 136026548
    /\ call = "isPartyMenuOpen"
    /\ callResult = "false"

\* C16: over one task snapshot, isAnyMenuOpen is true exactly when at least
\* one of battle-menu open, start-menu open, party-menu open and bag-menu
\* open is true.
C16_AnyMenuIsOrOfFour ==
    (call = "isAnyMenuOpen" /\ callResult \in {"true", "false"}) =>
        ((callResult = "true") <=>
            \/ isInBattleMenu
            \/ isStartMenuOpen(tasks)
            \/ isPartyMenuOpen(tasks)
            \/ isBagMenuOpen(tasks))

(***************************************************************************)
(* Claims about the decoders                                               *)
(***************************************************************************)
\* bit n of a byte or 16-bit number, as 0 or 1
NumBit(v, n) == (v \div 2^n) % 2

\* bit n of pid XOR otid, as 0 or 1
KeyBit(n) == IF (n \in dIn.pid) = (n \in dIn.otid) THEN 0 ELSE 1

\* byte j (counted from 1) of the input block XORed with the byte of the
\* key that little-endian order puts there
XoredByte(j) ==
    LET lane == (j - 1) % 4
        x[n \in -1..7] ==
            IF n = -1 THEN 0
            ELSE x[n - 1]
                   + 2^n * ((NumBit(dIn.data[j], n) + KeyBit(8 * lane + n)) % 2)
    IN x[7]

\* C17: block decryption XORs each of the twelve little-endian words of a
\* 48-byte block with the key pid XOR otid, every output byte is in 0..255,
\* and decrypting the output again with the same key returns the input.
C17_DecryptBlockSelfInverse ==
    dOp = "decryptDataBlock" =>
        /\ dOut # <<>> =>
              /\ Len(dOut) = 48
              /\ \A j \in 1..48 : dOut[j] \in 0..255 /\ dOut[j] = XoredByte(j)
        /\ dBack # <<>> => dBack = dIn.data

\* a round trip whose key has bit 31 set and whose block is changed by it
C17_Witness ==
    /\ dOp = "decryptDataBlock"
    /\ dBack # <<>>
    /\ 31 \in BitXor(dIn.pid, dIn.otid)
    /\ dOut # dIn.data
    /\ \E j \in 1..48 : dIn.data[j] = 129

\* C18: for every personality value the offsets of G, A, E and M are
\* pairwise distinct and are exactly 0, 12, 24 and 36; each of the 24 rows
\* of the order table is a permutation of the four categories.
C18_OffsetsPartitionBlock ==
    /\ (dOp = "getSubstructureOffset" /\ dOut # <<>>) =>
          /\ {dOut[k] : k \in 1..4} = {0, 12, 24, 36}
          /\ \A k \in 1..4 : \A j \in 1..4 : (k # j) => (dOut[k] # dOut[j])
    /\ Len(SUBSTRUCTURE_ORDER) = 24
    /\ \A r \in 1..24 :
          /\ Len(SUBSTRUCTURE_ORDER[r]) = 4
          /\ {SUBSTRUCTURE_ORDER[r][k] : k \in 1..4} = {"G", "A", "E", "M"}

\* personality 0x80000017: above 2^31, 2147483671 mod 24 = 7, row AGME
C18_Witness ==
    /\ dOp = "getSubstructureOffset"
    /\ dIn.pid = {0, 1, 2, 4, 31}
    /\ dOut = <<12, 0, 36, 24>>

\* the encrypted quantity XOR the low 16 bits of the key, bit by bit
XoredQuantity ==
    LET x[n \in -1..15] ==
            IF n = -1 THEN 0
            ELSE x[n - 1]
                   + 2^n * ((NumBit(dIn.encryptedQuantity, n)
                               + (IF n \in dIn.securityKey THEN 1 ELSE 0)) % 2)
    IN x[15]

\* C19: quantity decryption XORs the 16-bit encrypted quantity with the low
\* 16 bits of the key only, yields a value in 0..65535, and is self-inverse
\* under the same key; key low bits 0x1234 with encrypted 0x1238 give 0x0C.
C19_QuantityLowKeyOnly ==
    dOp = "decryptQuantity" =>
        /\ dOut # <<>> =>
              /\ dOut[1] \in 0..65535
              /\ dOut[1] = XoredQuantity
              /\ (dIn.encryptedQuantity = 4664
                    /\ dIn.securityKey \cap (0..15) = {2, 4, 5, 9, 12})
                  => dOut[1] = 12
        /\ dBack # <<>> => dBack[1] = dIn.encryptedQuantity

\* key 0x80011234 (high bits set), encrypted 0x1238
C19_Witness ==
    /\ dOp = "decryptQuantity"
    /\ dIn.encryptedQuantity = 4664
    /\ dIn.securityKey = {2, 4, 5, 9, 12, 16, 31}
    /\ dOut = <<12>>
    /\ dBack = <<4664>>

\* C20: getPlayerMoney returns an unsigned value: never negative, whatever
\* the encrypted word and the key are.
C20_MoneyUnsigned ==
    (dOp = "getPlayerMoney" /\ dOut # <<>>) => dOut[1] >= 0

\* C25: the status condition of a 32-bit status word is the first match in
\* the order bad-poison (bit 7), paralysis (bit 6), freeze (bit 5), burn
\* (bit 4), poison (bit 3), sleep (one of bits 0..2); a word with none of
\* bits 0..7 set, the zero word included, gives no status.
C25_StatusFirstMatch ==
    (dOp = "parseStatusCondition" /\ dOut # <<>>) =>
        LET w == dIn.status IN
          /\ (7 \in w) => dOut[1] = "bad_poison"
          /\ (7 \notin w /\ 6 \in w) => dOut[1] = "paralysis"
          /\ ({6, 7} \cap w = {} /\ 5 \in w) => dOut[1] = "freeze"
          /\ ({5, 6, 7} \cap w = {} /\ 4 \in w) => dOut[1] = "burn"
          /\ ({4, 5, 6, 7} \cap w = {} /\ 3 \in w) => dOut[1] = "poison"
          /\ ({3, 4, 5, 6, 7} \cap w = {} /\ {0, 1, 2} \cap w # {})
                => dOut[1] = "sleep"
          /\ ((0..7) \cap w = {}) => dOut[1] = "none"

\* a word with every low bit and high bits set: bad-poison wins
C25_Witness ==
    /\ dOp = "parseStatusCondition"
    /\ dIn.status = (0..7) \cup {8, 31}
    /\ dOut = <<"bad_poison">>

(***************************************************************************)
(* Claims about the bag                                                    *)
(***************************************************************************)
\* for every pattern and pocket, the itemIds of the slots that are not
\* empty in memory, in slot order
NonEmptyIdTable ==
    [pat \in BagPatterns |-> [p \in PocketNames |->
        SelectSeq([k \in 1..BAG_POCKETS[p].capacity |->
                      PatternSlot(pat, p, BAG_POCKETS[p].capacity, k - 1)[1]],
                  LAMBDA v : v # 0)]]

NonEmptyIds(p) == NonEmptyIdTable[bagPattern][p]

\* C21: the items getPocket returns are those of the slots whose itemId is
\* nonzero, in slot order: no item has id 0, there are at most capacity
\* entries, and there is one entry per nonzero slot.
C21_PocketSkipsEmptySlots ==
    \A p \in PocketNames :
        ppc[p] = "done" =>
            /\ Len(pItems[p]) <= BAG_POCKETS[p].capacity
            /\ Len(pItems[p]) = Len(NonEmptyIds(p))
            /\ \A k \in 1..Len(pItems[p]) :
                  /\ pItems[p][k].id # 0
                  /\ pItems[p][k].id = NonEmptyIds(p)[k]

\* slots 0 and 2 of 30 hold items, the others are empty
C21_Witness ==
    /\ bCall = "getPocket"
    /\ bagPattern = "sparse"
    /\ ppc["Items"] = "done"
    /\ Len(pItems["Items"]) = 2
    /\ pItems["Items"][2].id = 260

\* every slot of the Poke Balls pocket holds an item
C21_WitnessFull ==
    /\ bagPattern = "full"
    /\ ppc["PokeBalls"] = "done"
    /\ Len(pItems["PokeBalls"]) = 16

\* the encrypted quantity memory holds in the k-th slot of a pocket that is
\* not empty
NonEmptyQuantityTable ==
    [pat \in BagPatterns |-> [p \in PocketNames |->
        LET slots == [k \in 1..BAG_POCKETS[p].capacity |->
                        PatternSlot(pat, p, BAG_POCKETS[p].capacity, k - 1)]
            kept == SelectSeq(slots, LAMBDA sl : sl[1] # 0)
        IN [k \in 1..Len(kept) |-> kept[k][2]]]]

\* a 16-bit number XOR bits 0..15 of a word, bit by bit
Xor16(v, w) ==
    LET x[n \in -1..15] ==
            IF n = -1 THEN 0
            ELSE x[n - 1]
                   + 2^n * ((NumBit(v, n) + (IF n \in w THEN 1 ELSE 0)) % 2)
    IN x[15]

\* C22: one getBagContents reads the security key once, before any pocket
\* read is issued, and every quantity of every pocket it has decoded is the
\* encrypted quantity XOR that one value, whatever the key in memory is by
\* then.
C22_OneKeyForAllPockets ==
    bCall = "getBagContents" =>
        /\ nKeyReads <= 1
        /\ nPocketReads > 0 => (nKeyReads = 1 /\ pocketReadsAtKey = 0)
        /\ bResult = "ok" => nKeyReads = 1
        /\ \A p \in PocketNames :
              ppc[p] = "done" =>
                  \A k \in 1..Len(pItems[p]) :
                      pItems[p][k].quantity =
                          Xor16(NonEmptyQuantityTable[bagPattern][p][k],
                                keySeen[1])

\* the key in memory changed after it was read and all five pockets were
\* decoded
C22_Witness ==
    /\ bCall = "getBagContents"
    /\ bResult = "ok"
    /\ bagPattern = "sparse"
    /\ keyChanges = 1
    /\ keySeen = <<BitsOf(4660) \cup {16, 31}>>
    /\ secKeyMem = 0..15
    /\ \A p \in PocketNames : pItems[p][2].quantity = 12

\* C23: a pocket response shorter than capacity * ITEM_SLOT_SIZE bytes makes
\* the call fail: no call returns an item list that was decoded from a
\* short response.
C23_NoPartialDecode ==
    shortOk => bResult # "ok"

RECURSIVE SumCounts(_, _)
\* the sum of the quantities of a name -> quantity map over a set of names
SumCounts(counts, names) ==
    IF names = {} THEN 0
    ELSE LET n == CHOOSE x \in names : TRUE
         IN counts[n] + SumCounts(counts, names \ {n})

\* C28: with the Poke Balls pocket and the key unchanged between the two
\* calls, getTotalPokeBalls equals the sum of the quantities in the map of
\* getPokeBallCounts.
C28_TotalIsSumOfCounts ==
    (bCall = "pokeBalls" /\ bResult = "ok" /\ keyChanges = 0) =>
        ballTotal = SumCounts(ballCounts, DOMAIN ballCounts)

(***************************************************************************)
(* Claims about getPokemon                                                 *)
(***************************************************************************)
\* C24: getPokemon called with a slot outside 0..5 fails with the invalid
\* slot error and issues no read at all.
C24_InvalidSlotBeforeAnyRead ==
    gpc # "none" /\ gpSlot \notin 0..5 =>
        /\ gpReadAddrs = <<>>
        /\ gpc \in {"entry", "done"}
        /\ gpc = "done" => gpResult = "InvalidSlot"

C24_Witness ==
    /\ gpSlot = 6
    /\ gpc = "done"
    /\ gpResult = "InvalidSlot"
    /\ gpReadAddrs = <<>>
    /\ partyCountMem = 6

(***************************************************************************)
(* Claims about holdButtons                                                *)
(***************************************************************************)
\* C26: holdButtons sends at most one hold request, and only after its own
\* read of the avatar flags returned a byte with bit 1 (0x02) set; when the
\* byte read has the bit clear the call fails with the safety constraint
\* error and no request is sent.
C26_HoldOnlyOnMachBike ==
    /\ Len(posted) <= 1
    /\ \A k \in 1..Len(posted) :
          posted[k] = [button |-> hbButton, duration |-> hbDuration]
    /\ (posted # <<>> \/ hpc = "post") =>
          (flagsRead # <<>> /\ (flagsRead[1] \div 2) % 2 = 1)
    /\ (flagsRead # <<>> /\ (flagsRead[1] \div 2) % 2 = 0) =>
          (hbResult = "SafetyConstraint" /\ posted = <<>> /\ hpc = "done")

\* the byte read had the bit set, the player left the bike before the request
C26_Witness ==
    /\ flagsRead = <<3>>
    /\ avatarFlags = 4
    /\ posted = <<[button |-> "Up", duration |-> 2000]>>
    /\ hbResult = "true"

(***************************************************************************)
(* Claims about withSaveState                                              *)
(***************************************************************************)
\* C27: once the backup has been taken, withSaveState settles only after
\* exactly one call of restore, with no backup left in the manager, and an
\* error thrown by the test function is the error withSaveState settles
\* with.
C27_RestoresOnEveryPath ==
    (wpc = "done" /\ wResult # "BackupError") =>
        /\ nRestores = 1
        /\ backupPath = <<>>
        /\ wErr = "TestError" => wResult = "TestError"

(***************************************************************************)
(* Claims about the reads of getActiveTasks                                *)
(***************************************************************************)
TaskFieldNames == {"func", "prev", "priority"}

\* C29: the function pointer, the previous link and the priority of a slot
\* are read only after the read of that slot's active flag returned nonzero;
\* no field of a slot whose active flag read returned zero, or was not yet
\* read, is ever read.
C29_FieldsOnlyAfterActive ==
    \A n \in TaskSlots :
        /\ (\E f \in TaskFieldNames : <<n, f>> \in fieldReads) => activeSeen[n] > 0
        /\ activeSeen[n] <= 0 => \A f \in TaskFieldNames : <<n, f>> \notin fieldReads

\* a finished scan that skipped one slot and read the three fields of another
C29_Witness ==
    /\ tResult = "ok"
    /\ \E n \in TaskSlots :
          /\ activeSeen[n] = 0
          /\ \A f \in TaskFieldNames : <<n, f>> \notin fieldReads
    /\ \E m \in TaskSlots :
          /\ activeSeen[m] > 0
          /\ \A f \in TaskFieldNames : <<m, f>> \in fieldReads

(***************************************************************************)
(* Claims about isAnyMenuOpen under interleaving                           *)
(***************************************************************************)
\* C30: when at every instant of the call some active task of the task array
\* meets the party-menu, start-menu or bag-menu criterion, a call of
\* isAnyMenuOpen that returns a value returns true, however the steps of the
\* simulation interleave with the three scans.
C30_MenuSeenUnderInterleaving ==
    (call = "isAnyMenuOpen" /\ callResult = "false") => ~menuAlways

====
